---------------------------- MODULE Spec2Model ----------------------------
(***************************************************************************)
(* CivitAI-Model-Downloader.                                               *)
(*                                                                         *)
(* Part I  : FileDownloader.download_files / download_file                 *)
(*           (src/src/downloader/file_downloader.py): a batch of asyncio   *)
(*           coroutines sharing one asyncio.Semaphore.  One action is one  *)
(*           run of a coroutine between two suspension points.             *)
(* Part II : URLPreprocessor.identify_url_type / resolve_url               *)
(*           (src/src/preprocess/preprocessor.py) over strings that are    *)
(*           sequences of tokens, each token standing for a fixed piece of *)
(*           text.                                                         *)
(***************************************************************************)
EXTENDS Integers, Sequences, FiniteSets, TLC

(***************************************************************************)
(* Bounds of the model.                                                    *)
(***************************************************************************)
MaxTasks == 2
MaxConcurrent == 2
MaxRetry == 3
MaxRequests == 4   \* requests a batch can issue: tasks times retry_attempts
MaxLen == 5         \* tokens in an input of the classifier
MaxUrlLen == 3      \* tokens in an input of the resolver
MaxVersions == 2    \* versions in a model record
MaxResults == 2     \* records in a search result
MaxCalls == 3       \* calls made on a client or downloader object
MaxLines == 3       \* lines in a CSV file
MaxCatalogLines == 2 \* lines in a file given to read_model_csv alone
MaxLineLen == 2     \* tokens in a line of a text file
MaxFiles == 3       \* files of a version given to the file scan
MaxModels == 3      \* rows of the catalog of one model type

VARIABLES
    download_settings,  \* FileDownloader.download_settings
    download_tasks,     \* argument of download_files: the task ids 1..n
    fs,                 \* the disk: what each path holds
    semaphore,          \* value of the asyncio.Semaphore of the batch
    pc,                 \* position of each download_file coroutine
    attempt,            \* loop variable `attempt` of each coroutine
    file_path,          \* local variable file_path of each coroutine
    requests,           \* number of session.get calls issued per task
    slept,              \* the seconds of each asyncio.sleep call, per task
    refused,            \* the tasks a request of which was answered 401 or 404
    finished,           \* every outcome returned so far, in order of return
    completed,          \* finished coroutines not yet yielded by as_completed
    results,            \* list `results` of download_files
    counts,             \* successful_count / skipped_count / failed_count
    overall_n,          \* position of progress_manager.overall_pbar
    active_downloads,   \* ProgressManager.active_downloads (keys)
    dpc,                \* position of download_files
    url,                \* argument `url` of identify_url_type / resolve_url
    model_name,         \* argument `model_name` of resolve_url
    url_type,           \* first component of identify_url_type's result
    data,               \* second component of identify_url_type's result
    api_calls,          \* the GET requests resolve_url has issued, in order
    resolved,           \* the (success, text) tuple resolve_url returns
    replies,            \* what each lookup of resolve_url was answered
    rpc,                \* position of resolve_url
    owner,              \* the class whose session is followed
    api_key,            \* its api_key
    session,            \* its attribute `session`
    session_auth,       \* whether the session's headers hold Authorization
    spc,                \* position of the caller's `async with`
    sent,               \* the GET requests that went out, in order
    last,               \* what the last call on the object did
    calls,              \* number of calls made on the object
    csv_file,           \* the lines of the file at csv_path
    headers,            \* local `headers` of process_csv_file
    rows,               \* local `rows` of process_csv_file
    row_i,              \* the row the loop of process_csv_file is at
    tally,              \* total_processed / successfully_resolved / failed_to_resolve
    resolver_calls,     \* the calls of resolve_url made so far and their results
    out_file,           \* the lines written to output_path
    returned,           \* the tuple process_csv_file returns
    bpc,                \* position of process_csv_file
    catalog,            \* the lines read_model_csv found in the file
    models,             \* the list read_model_csv returns
    cpc,                \* position of read_model_csv
    line,               \* a line of the text file given to process_text_file
    owner_of,           \* the upstream API's data: the model each version belongs to
    text_row,           \* the csv_row process_text_file builds for the line
    name_calls,         \* the GET requests extract_model_name has issued
    tpc,                \* position of process_text_file at the line
    find_args,          \* arguments of CivitAIApiClient.find_download_url
    find_calls,         \* the calls of get_model_by_id / search_models_by_name it made
    find_result,        \* what find_download_url returns
    fpc,                \* position of find_download_url
    scan,               \* the file scan of extract_download_url: its input and locals
    orch                \* download_model_type: the catalog, the tasks, what it handed on

dvars == <<download_settings, download_tasks, fs, semaphore, pc, attempt,
           file_path, requests, slept, refused, finished, completed, results,
           counts, overall_n, active_downloads, dpc>>

rvars == <<url, model_name, url_type, data, api_calls, resolved, replies, rpc>>

svars == <<owner, api_key, session, session_auth, spc, sent, last, calls>>

bvars == <<csv_file, headers, rows, row_i, tally, resolver_calls, out_file,
           returned, bpc, catalog, models, cpc>>

tvars == <<line, owner_of, text_row, name_calls, tpc>>

fvars == <<find_args, find_calls, find_result, fpc>>

ovars == <<scan, orch>>

vars == <<dvars, rvars, svars, bvars, tvars, fvars, ovars>>

----------------------------------------------------------------------------
(***************************************************************************)
(* Part I.  The download engine.                                           *)
(***************************************************************************)
TaskIds == 1..MaxTasks
Tasks == {t \in TaskIds : t <= Len(download_tasks)}

\* The destination computed by the caller and the destination named by the
\* server's content-disposition header; distinct tasks have distinct paths.
GuessPath(t) == <<"guess", t>>
SrvPath(t) == <<"srv", t>>
Url(t) == <<"url", t>>

\* The tasks whose response may carry a content-disposition file name.
ServerNamed == {1}
AllPaths(n) == {GuessPath(t) : t \in 1..n} \cup {SrvPath(t) : t \in ServerNamed \cap 1..n}

\* File names that contain the text "Skipped".
SkippedInName == {SrvPath(1)}

\* What a path holds: nothing ("absent"), a file from before this run
\* ("old"), a file this run opened whose body is not all there ("partial"),
\* a file this run was writing when a write raised ("write_failed"), or a
\* file this run wrote to the end ("complete").
FileStates == {"absent", "old", "partial", "write_failed", "complete"}

\* What a session.get can end in: an HTTP status, a timeout, or another
\* exception raised by the transport.
Statuses == {"200", "401", "404", "500"}
Responses == Statuses \cup {"timeout", "exception"}

\* What can go wrong locally once a 200 has arrived.
IoOutcomes == {"ok", "mkdir_fails", "open_fails"}

\* How streaming the body ends: all chunks written, a write raises, or the
\* transfer times out part-way.
WriteOutcomes == {"ok", "write_fails", "timeout"}

retry_attempts == download_settings.retry_attempts
max_concurrent == download_settings.max_concurrent_downloads
skip_existing == download_settings.skip_existing_files

\* The (success, message) tuples download_file returns; `task` and `cause`
\* (what ended the last attempt) are not part of the tuple, they record where
\* it came from.
Outcome(t, ok, kind, name) ==
    [task |-> t, ok |-> ok, kind |-> kind, name |-> name, cause |-> "none"]
Skipped(t, p) == Outcome(t, TRUE, "Skipped (already exists)", p)
Downloaded(t, p) == Outcome(t, TRUE, "Downloaded", p)
ErrorMsg(t, r) ==
    CASE r = "401" -> Outcome(t, FALSE, "Authentication failed", Url(t))
      [] r = "404" -> Outcome(t, FALSE, "File not found", Url(t))
      [] r = "timeout" -> Outcome(t, FALSE, "Timeout downloading", Url(t))
      [] r = "exception" -> Outcome(t, FALSE, "Error downloading", Url(t))
      [] OTHER -> Outcome(t, FALSE, "HTTP", <<r, t>>)
MaxRetriesExceeded(t) == Outcome(t, FALSE, "Max retries exceeded", Url(t))

\* `"Skipped" in result[1]`
HasSkipped(o) ==
    \/ o.kind = "Skipped (already exists)"
    \/ o.kind = "Downloaded" /\ o.name \in SkippedInName

\* The summary of download_model_type (download.py, lines 383-385) over the
\* results download_files returned
Summary(rs) ==
    [downloaded |-> Cardinality({i \in DOMAIN rs : rs[i].ok /\ ~HasSkipped(rs[i])}),
     skipped |-> Cardinality({i \in DOMAIN rs : rs[i].ok /\ HasSkipped(rs[i])}),
     failed |-> Cardinality({i \in DOMAIN rs : ~rs[i].ok})]

\* Path.exists()
Exists(p) == fs[p] # "absent"

\* Faulty variant: the flag is read the wrong way round
SkipCheck_Inverted(p) == ~skip_existing /\ Exists(p)

\* `skip_existing and file_path.exists()`
SkipCheck(p) == skip_existing /\ Exists(p)

\* Faulty variant: no admission gate
CanAcquire_Ungated == TRUE

\* asyncio.Semaphore.acquire succeeds without waiting
CanAcquire == semaphore > 0

\* Faulty variant: a 404 is retried like any other status
IsPermanent_Only401(r) == r = "401"

\* statuses that end the task at once
IsPermanent(r) == r \in {"401", "404"}

\* Faulty variant: off by one
IsLastAttempt_OffByOne(a) == a = retry_attempts

\* `attempt == retry_attempts - 1`
IsLastAttempt(a) == a = retry_attempts - 1

\* Faulty variant: the slot is kept
Released_Kept(s, held) == s

\* Leaving `async with semaphore`: the slot, if one was taken, is given back
Released(s, held) == IF held THEN s + 1 ELSE s

\* Faulty variant: every wait is one second
Backoff_Constant(a) == 1

\* `2 ** attempt`
Backoff(a) == 2 ^ a

\* Faulty variant: a failed outcome is not counted
Counted_NoFailed(c, result) ==
    IF result.ok
      THEN IF HasSkipped(result)
             THEN [c EXCEPT !.skipped = @ + 1]
             ELSE [c EXCEPT !.successful = @ + 1]
      ELSE c

\* The counters after a result, lines 237-243
Counted(c, result) ==
    IF result.ok
      THEN IF HasSkipped(result)
             THEN [c EXCEPT !.skipped = @ + 1]
             ELSE [c EXCEPT !.successful = @ + 1]
      ELSE [c EXCEPT !.failed = @ + 1]

\* Faulty variant: the file name of the server is not used
FinalPath_Guess(t, cd) == file_path[t]

\* `final_file_path = file_path.parent / filename` when the response
\* carries a content-disposition file name
FinalPath(t, cd) == IF cd THEN SrvPath(t) ELSE file_path[t]

\* Faulty variant: the result is put in front
AppendResult_InFront(rs, r) == <<r>> \o rs

\* `results.append(result)`
AppendResult(rs, r) == Append(rs, r)

\* The coroutines inside `async with semaphore`.
Holding == {t \in Tasks : pc[t] \in {"inflight", "writing", "sleeping"}}

DInit ==
    /\ download_settings \in
          [max_concurrent_downloads : 1..MaxConcurrent,
           retry_attempts : 0..MaxRetry,
           skip_existing_files : BOOLEAN]
    /\ \E n \in 0..MaxTasks : download_tasks = [i \in 1..n |-> i]
    /\ Len(download_tasks) * download_settings.retry_attempts <= MaxRequests
    /\ fs \in [AllPaths(MaxTasks) -> {"absent", "old"}]
    /\ \A p \in AllPaths(MaxTasks) \ AllPaths(Len(download_tasks)) : fs[p] = "absent"
    \* with skip_existing_files off the code never looks at the disk
    /\ ~download_settings.skip_existing_files
          => \A p \in AllPaths(MaxTasks) : fs[p] = "absent"
    /\ semaphore = 0
    /\ pc = [t \in TaskIds |-> "none"]
    /\ attempt = [t \in TaskIds |-> 0]
    /\ file_path = [t \in TaskIds |-> GuessPath(t)]
    /\ requests = [t \in TaskIds |-> 0]
    /\ slept = [t \in TaskIds |-> <<>>]
    /\ refused = {}
    /\ finished = <<>>
    /\ completed = <<>>
    /\ results = <<>>
    /\ counts = [successful |-> 0, skipped |-> 0, failed |-> 0]
    /\ overall_n = 0
    /\ active_downloads = {}
    /\ dpc = "init"

\* download_files up to its first suspension: the empty batch returns at
\* once, otherwise the semaphore, the progress manager and the coroutines
\* are created.
CallDownloadFiles ==
    /\ dpc = "init"
    /\ IF Len(download_tasks) = 0
         THEN /\ dpc' = "returned"
              /\ UNCHANGED <<semaphore, pc>>
         ELSE /\ dpc' = "collecting"
              /\ semaphore' = max_concurrent
              /\ pc' = [t \in TaskIds |-> IF t \in Tasks THEN "start" ELSE "none"]
    /\ UNCHANGED <<download_settings, download_tasks, slept, fs, attempt, file_path,
                   requests, refused, finished, completed, results, counts,
                   overall_n, active_downloads>>
    /\ UNCHANGED <<rvars, svars, bvars, tvars, fvars, ovars>>

\* `async with self.session.get(download_url)`: the request goes out and the
\* coroutine waits for the response.
IssueRequest(t, a) ==
    /\ pc' = [pc EXCEPT ![t] = "inflight"]
    /\ attempt' = [attempt EXCEPT ![t] = a]
    /\ requests' = [requests EXCEPT ![t] = @ + 1]

\* `return ok, msg`; leaving `async with semaphore` releases the slot.
Return(t, o, held) ==
    /\ pc' = [pc EXCEPT ![t] = "done"]
    /\ completed' = Append(completed, o)
    /\ finished' = Append(finished, o)
    /\ semaphore' = Released(semaphore, held)

\* The end of a failed attempt: return on the last attempt, else back off.
RetryOrFail(t, r) ==
    IF IsLastAttempt(attempt[t])
      THEN /\ Return(t, [ErrorMsg(t, r) EXCEPT !.cause = r], TRUE)
           /\ UNCHANGED slept
      ELSE /\ pc' = [pc EXCEPT ![t] = "sleeping"]
           /\ slept' = [slept EXCEPT ![t] = Append(@, Backoff(attempt[t]))]
           /\ UNCHANGED <<completed, finished, semaphore>>

\* The slot is taken and the retry loop is entered: the first request goes
\* out, or with an empty attempt range the loop body never runs.
EnterLoop(t) ==
    IF retry_attempts = 0
      THEN /\ Return(t, MaxRetriesExceeded(t), FALSE)
           /\ UNCHANGED <<attempt, requests>>
      ELSE /\ semaphore' = semaphore - 1
           /\ IssueRequest(t, 0)
           /\ UNCHANGED <<completed, finished>>

\* download_file from its first line to its first suspension.
StartTask(t) ==
    /\ pc[t] = "start"
    /\ IF SkipCheck(file_path[t])
         THEN /\ Return(t, Skipped(t, file_path[t]), FALSE)
              /\ UNCHANGED <<attempt, requests>>
         ELSE IF CanAcquire
           THEN EnterLoop(t)
           ELSE /\ pc' = [pc EXCEPT ![t] = "waitsem"]
                /\ UNCHANGED <<semaphore, attempt, requests, completed, finished>>
    /\ UNCHANGED <<download_settings, download_tasks, slept, fs, file_path, refused,
                   results, counts, overall_n, active_downloads, dpc>>
    /\ UNCHANGED <<rvars, svars, bvars, tvars, fvars, ovars>>

\* A coroutine blocked in semaphore.acquire gets a slot.
Acquire(t) ==
    /\ pc[t] = "waitsem"
    /\ CanAcquire
    /\ EnterLoop(t)
    /\ UNCHANGED <<download_settings, download_tasks, slept, fs, file_path, refused,
                   results, counts, overall_n, active_downloads, dpc>>
    /\ UNCHANGED <<rvars, svars, bvars, tvars, fvars, ovars>>

\* The request ends without a 200.
RespondFailure(t, r) ==
    /\ pc[t] = "inflight"
    /\ r \in Responses \ {"200"}
    /\ refused' = IF r \in {"401", "404"} THEN refused \cup {t} ELSE refused
    /\ IF IsPermanent(r)
         THEN /\ Return(t, [ErrorMsg(t, r) EXCEPT !.cause = r], TRUE)
              /\ UNCHANGED slept
         ELSE RetryOrFail(t, r)
    /\ UNCHANGED <<download_settings, download_tasks, fs, attempt, file_path,
                   requests, results, counts, overall_n, active_downloads, dpc>>
    /\ UNCHANGED <<rvars, svars, bvars, tvars, fvars, ovars>>

\* ProgressManager.create_file_progress: the bar is stored under file_id.
create_file_progress(registry, file_id) == registry \cup {file_id}

\* A faulty remove_file_progress that leaves the entry in the registry.
remove_file_progress_Kept(registry, file_id) == registry

\* ProgressManager.remove_file_progress: a registered entry is closed and
\* deleted; an id that is not registered is left alone.
remove_file_progress(registry, file_id) ==
    IF file_id \in registry THEN registry \ {file_id} ELSE registry

\* ProgressManager.cleanup: every remaining bar is closed, the registry cleared.
cleanup(registry) == registry \ registry

\* A 200 arrives: mkdir, the server's file name, the second skip check, and
\* opening the file for writing.  (mkdir with exist_ok cannot fail for a
\* directory that is there, so not when a file of the task exists.)
Respond200(t, cd, io) ==
    /\ pc[t] = "inflight"
    /\ cd => t \in ServerNamed
    /\ io = "mkdir_fails" =>
          ~Exists(GuessPath(t)) /\ (t \in ServerNamed => ~Exists(SrvPath(t)))
    /\ LET final == FinalPath(t, cd) IN
       IF io = "mkdir_fails"
         THEN /\ RetryOrFail(t, "exception")
              /\ UNCHANGED <<fs, file_path, active_downloads>>
       ELSE IF cd /\ SkipCheck(final)
         THEN /\ Return(t, [Skipped(t, final) EXCEPT !.cause = "200"], TRUE)
              /\ UNCHANGED <<fs, file_path, active_downloads, slept>>
       ELSE IF io = "open_fails"
         THEN /\ file_path' = [file_path EXCEPT ![t] = final]
              /\ RetryOrFail(t, "exception")
              /\ UNCHANGED <<fs, active_downloads>>
       ELSE /\ file_path' = [file_path EXCEPT ![t] = final]
            /\ fs' = [fs EXCEPT ![final] = "partial"]
            /\ active_downloads' = create_file_progress(active_downloads, t)
            /\ pc' = [pc EXCEPT ![t] = "writing"]
            /\ UNCHANGED <<completed, finished, semaphore, slept>>
    /\ UNCHANGED <<download_settings, download_tasks, attempt, requests, refused,
                   results, counts, overall_n, dpc>>
    /\ UNCHANGED <<rvars, svars, bvars, tvars, fvars, ovars>>

\* The body is streamed to the file: it completes, or the write or the
\* transfer raises part-way; the progress entry is removed either way.
FinishWrite(t, w) ==
    /\ pc[t] = "writing"
    /\ active_downloads' = remove_file_progress(active_downloads, t)
    /\ CASE w = "ok" ->
              /\ fs' = [fs EXCEPT ![file_path[t]] = "complete"]
              /\ Return(t, [Downloaded(t, file_path[t]) EXCEPT !.cause = "200"], TRUE)
              /\ UNCHANGED slept
         [] w = "write_fails" ->
              /\ fs' = [fs EXCEPT ![file_path[t]] = "write_failed"]
              /\ RetryOrFail(t, "exception")
         [] OTHER ->
              /\ RetryOrFail(t, w)
              /\ UNCHANGED fs
    /\ UNCHANGED <<download_settings, download_tasks, attempt, file_path,
                   requests, refused, results, counts, overall_n, dpc>>
    /\ UNCHANGED <<rvars, svars, bvars, tvars, fvars, ovars>>

\* `await asyncio.sleep(2 ** attempt)` ends and the next attempt starts.
Wake(t) ==
    /\ pc[t] = "sleeping"
    /\ IssueRequest(t, attempt[t] + 1)
    /\ UNCHANGED <<download_settings, download_tasks, slept, fs, semaphore, file_path,
                   refused, finished, completed, results, counts, overall_n,
                   active_downloads, dpc>>
    /\ UNCHANGED <<rvars, svars, bvars, tvars, fvars, ovars>>

\* One turn of `for coro in asyncio.as_completed(tasks)`.
Collect ==
    /\ dpc = "collecting"
    /\ completed # <<>>
    /\ LET result == Head(completed) IN
       /\ results' = AppendResult(results, result)
       /\ counts' = Counted(counts, result)
    /\ completed' = Tail(completed)
    /\ overall_n' = overall_n + 1
    /\ UNCHANGED <<download_settings, download_tasks, slept, fs, semaphore, pc, attempt,
                   file_path, requests, refused, finished, active_downloads, dpc>>
    /\ UNCHANGED <<rvars, svars, bvars, tvars, fvars, ovars>>

\* The loop is exhausted: progress_manager.cleanup() and `return results`.
ReturnResults ==
    /\ dpc = "collecting"
    /\ Len(results) = Len(download_tasks)
    /\ active_downloads' = cleanup(active_downloads)
    /\ dpc' = "returned"
    /\ UNCHANGED <<download_settings, download_tasks, slept, fs, semaphore, pc, attempt,
                   file_path, requests, refused, finished, completed, results,
                   counts, overall_n>>
    /\ UNCHANGED <<rvars, svars, bvars, tvars, fvars, ovars>>

----------------------------------------------------------------------------
(***************************************************************************)
(* Part II.  Classification and resolution of references.                  *)
(*                                                                         *)
(* A string is a sequence of tokens; each token stands for this text:      *)
(*   "DL"    https://civitai.com/api/download/models/                      *)
(*   "MP"    https://civitai.com/models/                                   *)
(*   "1"     the digit 1                                                   *)
(*   "/"     /                                                             *)
(*   "x"     the letter x                                                  *)
(*   "?mv="  ?modelVersionId=                                              *)
(*   "?m="   ?modelId=                                                     *)
(*   " "     a blank                                                       *)
(*   "//["   //[   (at the start of a string: a host that urlparse         *)
(*                  rejects with ValueError)                               *)
(***************************************************************************)
Alphabet == {"DL", "MP", "1", "/", "x", "?mv=", "?m=", " ", "//["}
Strings(n) == UNION {[1..k -> Alphabet] : k \in 0..n}

None == <<"None">>
\* the exception a call of `get` on a value that is not a dict raises
AttributeError == <<"AttributeError">>
Truthy(v) == v # None /\ v # <<>>

IsDigit(c) == c = "1"
IsSpace(c) == c = " "
\* the text of token c begins with `/`
StartsWithSlash(c) == c \in {"/", "//["}

\* str.lower(), token by token
LowerOf(c) ==
    CASE c = "X" -> "x"
      [] c = "SrNo" -> "srno"
      [] c = "Sr No" -> "sr no"
      [] c = "INDEX" -> "index"
      [] OTHER -> c
Lower(name) == [i \in DOMAIN name |-> LowerOf(name[i])]

\* str.strip()
Strip(s) ==
    LET keep == {i \in 1..Len(s) : ~IsSpace(s[i])} IN
    IF keep = {} THEN <<>>
    ELSE LET lo == CHOOSE i \in keep : \A j \in keep : i <= j
             hi == CHOOSE i \in keep : \A j \in keep : j <= i
         IN SubSeq(s, lo, hi)

\* The end of the longest run of digits of s that starts at position i
\* (i - 1 when s has no digit at i): what a greedy (\d+) consumes.
DigitsEnd(s, i) ==
    LET stop == {j \in i..Len(s) + 1 : j = Len(s) + 1 \/ ~IsDigit(s[j])} IN
    (CHOOSE j \in stop : \A k \in stop : j <= k) - 1

\* Faulty variant: the pattern asks for a trailing slash
MatchDownloadUrl_TrailingSlash(s) ==
    Len(s) >= 3 /\ s[1] = "DL" /\ IsDigit(s[2]) /\ s[Len(s)] = "/"

\* url_patterns['download_url'].match(s)
MatchDownloadUrl(s) == Len(s) >= 2 /\ s[1] = "DL" /\ IsDigit(s[2])

\* url_patterns['model_page'].match(s)
MatchModelPage(s) == Len(s) >= 2 /\ s[1] = "MP" /\ IsDigit(s[2])

\* The positions at which `\?modelVersionId=(\d+)` can match after the
\* `/.*` of url_patterns['model_version_page'].
VersionParamAt(s) ==
    IF ~MatchModelPage(s) THEN {}
    ELSE LET e == DigitsEnd(s, 2) IN
         IF e + 1 > Len(s) \/ ~StartsWithSlash(s[e + 1]) THEN {}
         ELSE {j \in e + 2..Len(s) - 1 : s[j] = "?mv=" /\ IsDigit(s[j + 1])}

\* url_patterns['model_version_page'].match(s)
MatchModelVersionPage(s) == VersionParamAt(s) # {}

\* url_patterns['short_url'].match(s)
MatchShortUrl(s) ==
    /\ MatchModelPage(s)
    /\ LET e == DigitsEnd(s, 2) IN
       \/ e = Len(s)
       \/ e + 1 = Len(s) /\ s[e + 1] = "/"

\* url_patterns['model_id_only'].match(s)
MatchModelIdOnly(s) == Len(s) >= 1 /\ \A i \in 1..Len(s) : IsDigit(s[i])

\* urlparse(s) raises ValueError
UrlParseRaises(s) == Len(s) >= 1 /\ s[1] = "//["

\* parse_qs(urlparse(s).query): the query starts after the first `?`; the
\* alphabet has no `&`, so it holds one name=value pair, and a pair with a
\* blank value is dropped.
ParseQs(s) ==
    LET qs == {i \in 1..Len(s) : s[i] \in {"?mv=", "?m="}} IN
    IF qs = {} THEN <<>>
    ELSE LET q == CHOOSE i \in qs : \A j \in qs : i <= j
             value == SubSeq(s, q + 1, Len(s))
         IN IF value = <<>> THEN <<>>
            ELSE IF s[q] = "?mv=" THEN [modelVersionId |-> value]
            ELSE [modelId |-> value]

Classified(t, d) == [url_type |-> t, data |-> d]

\* Faulty variant: the ValueError of urlparse is not caught
OnParseError_Propagates(s) == Classified("ValueError", [original_url |-> s])

\* `except Exception: pass`, then the final return
OnParseError(s) == Classified("unknown", [original_url |-> s])

\* URLPreprocessor.identify_url_type
identify_url_type(raw) ==
    LET s == Strip(raw) IN
    IF MatchDownloadUrl(s)
      THEN Classified("download_url",
                      [model_version_id |-> SubSeq(s, 2, DigitsEnd(s, 2))])
    ELSE IF MatchModelVersionPage(s)
      THEN LET js == VersionParamAt(s)
               j == CHOOSE k \in js : \A m \in js : m <= k
           IN Classified("model_version_page",
                         [model_id |-> SubSeq(s, 2, DigitsEnd(s, 2)),
                          model_version_id |-> SubSeq(s, j + 1, DigitsEnd(s, j + 1))])
    ELSE IF MatchModelPage(s)
      THEN Classified("model_page", [model_id |-> SubSeq(s, 2, DigitsEnd(s, 2))])
    ELSE IF MatchShortUrl(s)
      THEN Classified("model_page", [model_id |-> SubSeq(s, 2, DigitsEnd(s, 2))])
    ELSE IF MatchModelIdOnly(s)
      THEN Classified("model_id_only", [model_id |-> s])
    ELSE IF UrlParseRaises(s)
      THEN OnParseError(s)
    ELSE LET query_params == ParseQs(s) IN
         IF "modelVersionId" \in DOMAIN query_params
           THEN Classified("query_version_id",
                           [model_version_id |-> query_params.modelVersionId])
         ELSE IF "modelId" \in DOMAIN query_params
           THEN Classified("query_model_id", [model_id |-> query_params.modelId])
         ELSE Classified("unknown", [original_url |-> s])

UrlTypes == {"download_url", "model_version_page", "model_page", "model_id_only",
             "query_version_id", "query_model_id", "unknown"}

\* Before any lookup: nothing was answered.
NoReplies ==
    [version |-> [status |-> "none", body |-> [downloadUrl |-> None]],
     model |-> [status |-> "none", body |-> [modelVersions |-> <<>>]],
     search |-> [status |-> "none", body |-> <<>>]]

RIdle ==
    /\ url = <<>>
    /\ model_name = <<>>
    /\ url_type = "none"
    /\ data = <<>>
    /\ api_calls = <<>>
    /\ resolved = <<>>
    /\ replies = NoReplies
    /\ rpc = "idle"

\* A call of identify_url_type on its own.
CInit ==
    /\ url \in Strings(MaxLen)
    /\ model_name = <<>>
    /\ url_type = "none"
    /\ data = <<>>
    /\ api_calls = <<>>
    /\ resolved = <<>>
    /\ replies = NoReplies
    /\ rpc = "classify"

Classify ==
    /\ rpc = "classify"
    /\ LET c == identify_url_type(url) IN
       /\ url_type' = c.url_type
       /\ data' = c.data
    /\ rpc' = "classified"
    /\ UNCHANGED <<url, model_name, api_calls, resolved, replies>>
    /\ UNCHANGED <<dvars, svars, bvars, tvars, fvars, ovars>>

\* The ids the upstream API knows, and the canonical download URL of a
\* version id.
Ids == {<<"1">>, <<"1", "1">>}
DownloadUrlOf(v) == <<"DL">> \o v

\* A downloadUrl the API sends that is not of the download endpoint (the
\* URL of a model page).
ForeignUrl == <<"MP", "1">>
\* The file lists of a version: none, or one primary safetensor file.
FileLists == {<<>>, <<[format |-> "safetensor", primary |-> TRUE]>>}
\* An entry of modelVersions that is not a JSON object (a null): Python's
\* None, which has no `get`.
NullEntry == [json |-> "null", id |-> None, downloadUrl |-> None, files |-> <<>>]
IsObject(v) == v.json = "object"

\* The entries of modelVersions as the API returns them: a version with its
\* id, its downloadUrl (which may be missing) and its files, or a null.
ModelVersions ==
    {[json |-> "object", id |-> v, downloadUrl |-> DownloadUrlOf(v), files |-> <<>>] :
        v \in Ids}
    \cup {[json |-> "object", id |-> <<"1">>, downloadUrl |-> ForeignUrl, files |-> <<>>]}
    \cup {[json |-> "object", id |-> v, downloadUrl |-> None, files |-> f] :
             v \in Ids, f \in FileLists}
    \cup {NullEntry}
SeqsUpTo(S, n) == UNION {[1..k -> S] : k \in 0..n}
\* A model record: its list of versions (empty when modelVersions is missing).
ModelRecords == {[modelVersions |-> vs] : vs \in SeqsUpTo(ModelVersions, MaxVersions)}

\* What a GET of the upstream API can end in: a 200 with a body, another
\* status, or an exception (timeout, connection error, unreadable body).
\* (The body of a reply that is not a 200 is never read; `nobody` fills it.)
Replies(bodies, nobody) ==
    {[status |-> "200", body |-> b] : b \in bodies}
    \cup {[status |-> st, body |-> nobody] : st \in {"404", "500", "exception"}}
VersionReplies ==
    Replies({[downloadUrl |-> u] : u \in {None} \cup {DownloadUrlOf(v) : v \in Ids}},
            [downloadUrl |-> None])
ModelReplies == Replies(ModelRecords, [modelVersions |-> <<>>])
\* The names of the records a search returns: "X" is the name hint "x" in
\* another case, "y" is another name.
RecordNames == {<<"X">>, <<"y">>}
\* The records a search returns first: a name and at most one entry in
\* modelVersions, of id 1.
SearchRecords ==
    {[name |-> n, modelVersions |-> vs] :
        n \in RecordNames,
        vs \in SeqsUpTo({v \in ModelVersions : v.id # <<"1", "1">>}, 1)}
\* The records that follow: named "X", with the download URL of version 11.
FurtherRecords ==
    {[name |-> <<"X">>,
      modelVersions |-> <<[json |-> "object", id |-> <<"1", "1">>,
                           downloadUrl |-> DownloadUrlOf(<<"1", "1">>),
                           files |-> <<>>]>>]}
\* `data.get('items', [])`: no record, or a first record and further ones.
SearchResults ==
    {<<>>} \cup {<<r>> \o rest : r \in SearchRecords,
                                rest \in SeqsUpTo(FurtherRecords, MaxResults - 1)}
SearchReplies == Replies(SearchResults, <<>>)
\* URLPreprocessor.get_model_info / get_model_version_info / search_models
\* return the parsed body on a 200 and None otherwise.
ReturnsNone(reply) == reply.status # "200"

\* URLPreprocessor.get_best_download_url
\* (the result is AttributeError when `version.get` is applied to an entry
\* that is not an object before a URL is returned)
get_best_download_url(model_data, preferred_version_id) ==
    LET model_versions == model_data.modelVersions
        n == Len(model_versions)
        hits == {i \in 1..n :
                    /\ IsObject(model_versions[i])
                    /\ model_versions[i].id = preferred_version_id
                    /\ Truthy(model_versions[i].downloadUrl)}
        stop == IF hits = {} THEN n + 1
                ELSE CHOOSE i \in hits : \A j \in hits : i <= j
    IN IF model_versions = <<>> THEN None
       ELSE IF /\ Truthy(preferred_version_id)
               /\ \E i \in 1..n : i < stop /\ ~IsObject(model_versions[i])
         THEN AttributeError
       ELSE IF Truthy(preferred_version_id) /\ hits # {}
         THEN model_versions[stop].downloadUrl
       ELSE IF ~IsObject(model_versions[1]) THEN AttributeError
       ELSE IF Truthy(model_versions[1].downloadUrl)
         THEN model_versions[1].downloadUrl
       ELSE None

\* `data.get(key)`
Get(d, key) == IF key \in DOMAIN d THEN d[key] ELSE None

Call(op, arg) == [op |-> op, arg |-> arg]
Success(u) == [ok |-> TRUE, value |-> u]
\* (False, f"Could not resolve URL to download link: {url}")
Unresolved(u) == [ok |-> FALSE, value |-> u]

\* Faulty variant: a name hint is enough for the search
SearchesByName_AnyType(hint, type) == hint # <<>>

\* `if model_name and url_type == 'unknown'`, line 229
SearchesByName(hint, type) == hint # <<>> /\ type = "unknown"

\* The url types for which resolve_url looks the version up.
VersionLookupTypes == {"model_version_page", "query_version_id"}
\* The url types for which resolve_url looks the model up.
ModelLookupTypes == {"model_page", "model_id_only", "query_model_id"}

\* The inputs of resolve_url: every short string, and the model-page URLs
\* with a modelVersionId parameter, with and without a name segment.
VersionPageUrls ==
    {<<"MP">> \o m \o mid \o <<"?mv=">> \o v :
        m \in Ids, v \in Ids, mid \in {<<>>, <<"/">>, <<"/", "x">>}}
ResolveInputs == Strings(MaxUrlLen) \cup VersionPageUrls
NameHints == {<<>>, <<"x">>}

RInit ==
    /\ url \in ResolveInputs
    /\ model_name \in NameHints
    /\ url_type = "none"
    /\ data = <<>>
    /\ api_calls = <<>>
    /\ resolved = <<>>
    /\ replies = NoReplies
    /\ rpc = "start"

\* resolve_url, lines 186-193: classification, and the input that is
\* already a download URL.
ResolveStart ==
    /\ rpc = "start"
    /\ LET c == identify_url_type(url) IN
       /\ url_type' = c.url_type
       /\ data' = c.data
       /\ IF c.url_type = "download_url"
            THEN /\ resolved' = Success(url)
                 /\ rpc' = "done"
            ELSE /\ rpc' = "version"
                 /\ UNCHANGED resolved
    /\ UNCHANGED <<url, model_name, api_calls, replies>>
    /\ UNCHANGED <<dvars, svars, bvars, tvars, fvars, ovars>>

\* resolve_url, lines 195-208: the lookup of the version.
VersionStep ==
    /\ rpc = "version"
    /\ IF url_type \in VersionLookupTypes /\ "model_version_id" \in DOMAIN data
         THEN \E reply \in VersionReplies :
              LET version_info == reply.body IN
              /\ api_calls' = Append(api_calls, Call("model-versions", data.model_version_id))
              /\ replies' = [replies EXCEPT !.version = reply]
              /\ IF ~ReturnsNone(reply) /\ Truthy(version_info.downloadUrl)
                   THEN /\ resolved' = Success(version_info.downloadUrl)
                        /\ rpc' = "done"
                   ELSE /\ rpc' = "model"
                        /\ UNCHANGED resolved
         ELSE /\ rpc' = "model"
              /\ UNCHANGED <<api_calls, resolved, replies>>
    /\ UNCHANGED <<url, model_name, url_type, data>>
    /\ UNCHANGED <<dvars, svars, bvars, tvars, fvars, ovars>>

\* resolve_url, lines 210-226: the lookup of the model.
ModelStep ==
    /\ rpc = "model"
    /\ IF url_type \in ModelLookupTypes /\ "model_id" \in DOMAIN data
         THEN \E reply \in ModelReplies :
              LET model_info == reply.body
                  download_url == IF ReturnsNone(reply) THEN None
                                  ELSE get_best_download_url(model_info,
                                           Get(data, "model_version_id"))
              IN
              /\ api_calls' = Append(api_calls, Call("models", data.model_id))
              /\ replies' = [replies EXCEPT !.model = reply]
              /\ IF download_url = AttributeError
                   THEN /\ rpc' = "raised"
                        /\ UNCHANGED resolved
                   ELSE IF Truthy(download_url)
                   THEN /\ resolved' = Success(download_url)
                        /\ rpc' = "done"
                   ELSE /\ rpc' = "search"
                        /\ UNCHANGED resolved
         ELSE /\ rpc' = "search"
              /\ UNCHANGED <<api_calls, resolved, replies>>
    /\ UNCHANGED <<url, model_name, url_type, data>>
    /\ UNCHANGED <<dvars, svars, bvars, tvars, fvars, ovars>>

\* resolve_url, lines 228-245: the search by name, and the failure.
SearchStep ==
    /\ rpc = "search"
    /\ IF SearchesByName(model_name, url_type)
         THEN \E reply \in SearchReplies :
              LET search_results == reply.body
                  download_url ==
                      IF ReturnsNone(reply) \/ search_results = <<>> THEN None
                      ELSE get_best_download_url(search_results[1], None)
              IN
              /\ api_calls' = Append(api_calls, Call("search", model_name))
              /\ replies' = [replies EXCEPT !.search = reply]
              /\ IF download_url = AttributeError
                   THEN /\ rpc' = "raised"
                        /\ UNCHANGED resolved
                   ELSE /\ rpc' = "done"
                        /\ resolved' = IF Truthy(download_url)
                                         THEN Success(download_url)
                                         ELSE Unresolved(url)
         ELSE /\ resolved' = Unresolved(url)
              /\ rpc' = "done"
              /\ UNCHANGED <<api_calls, replies>>
    /\ UNCHANGED <<url, model_name, url_type, data>>
    /\ UNCHANGED <<dvars, svars, bvars, tvars, fvars, ovars>>

\* The download engine idle, for the specifications of Part II.
DIdle ==
    /\ download_settings = [max_concurrent_downloads |-> 1, retry_attempts |-> 1,
                            skip_existing_files |-> TRUE]
    /\ download_tasks = <<>>
    /\ fs = [p \in AllPaths(MaxTasks) |-> "absent"]
    /\ semaphore = 0
    /\ pc = [t \in TaskIds |-> "none"]
    /\ attempt = [t \in TaskIds |-> 0]
    /\ file_path = [t \in TaskIds |-> GuessPath(t)]
    /\ requests = [t \in TaskIds |-> 0]
    /\ slept = [t \in TaskIds |-> <<>>]
    /\ refused = {}
    /\ finished = <<>>
    /\ completed = <<>>
    /\ results = <<>>
    /\ counts = [successful |-> 0, skipped |-> 0, failed |-> 0]
    /\ overall_n = 0
    /\ active_downloads = {}
    /\ dpc = "idle"

----------------------------------------------------------------------------
(***************************************************************************)
(* Part III.  The HTTP session of CivitAIApiClient and of FileDownloader,  *)
(* and the requests that go out on it.                                     *)
(*                                                                         *)
(* Further tokens of URLs:                                                 *)
(*   "?type="   a query the URL already carries                            *)
(*   "?token="  ?token=      "&token="  &token=      "k"  an API key       *)
(***************************************************************************)
Owners == {"CivitAIApiClient", "FileDownloader"}
\* api_key: not given, the empty string, a key
ApiKeys == {None, <<>>, <<"k">>}
\* The reads of CivitAIApiClient.
Reads == {"get_model_by_id", "get_model_version", "search_models_by_name"}
\* What a GET ends in: a status, or asyncio.TimeoutError.
GetEnds == {"200", "404", "500", "timeout"}
\* The JSON body of a 200: an object with content, or {}.
Bodies == {"object", "{}"}
\* The URLs handed to download_file: without and with a query.
DownloadUrls == {<<"DL", "1">>, <<"DL", "1", "?type=">>}

NoCall ==
    [op |-> "none", end |-> "none", raised |-> "no", value |-> "none", gets |-> 0,
     session |-> "none"]

SIdle ==
    /\ owner = "CivitAIApiClient"
    /\ api_key = None
    /\ session = "none"
    /\ session_auth = FALSE
    /\ spc = "idle"
    /\ sent = <<>>
    /\ last = NoCall
    /\ calls = 0

\* An object after __init__, before any `async with`.
SInit ==
    /\ owner \in Owners
    /\ api_key \in ApiKeys
    /\ session = "none"
    /\ session_auth = FALSE
    /\ spc = "before"
    /\ sent = <<>>
    /\ last = NoCall
    /\ calls = 0

\* __aenter__: the session is created, with the Authorization header when
\* there is an api_key.
aenter ==
    /\ spc = "before"
    /\ session' = "open"
    /\ session_auth' = Truthy(api_key)
    /\ spc' = "inside"
    /\ UNCHANGED <<owner, api_key, sent, last, calls>>
    /\ UNCHANGED <<dvars, rvars, bvars, tvars, fvars, ovars>>

\* Faulty variant: the session is left open
aexit_Leaks(s) == s

\* `if self.session: await self.session.close()`
aexit(s) == IF s = "none" THEN s ELSE "closed"

\* The `async with` block ends, normally or by an exception raised in it:
\* __aexit__ runs either way (and returns None: the exception goes on).
LeaveScope(exc) ==
    /\ spc = "inside"
    /\ session' = aexit(session)
    /\ spc' = IF exc THEN "after_exception" ELSE "after"
    /\ UNCHANGED <<owner, api_key, session_auth, sent, last, calls>>
    /\ UNCHANGED <<dvars, rvars, bvars, tvars, fvars, ovars>>

\* `if not self.session`
NoSession(s) == s = "none"

\* Faulty variant: a 404 is an error like any other status
OnStatus_404Raises(end, body) ==
    CASE end = "200" -> [raised |-> "no", data |-> body]
      [] end = "timeout" -> [raised |-> "TimeoutError", data |-> "none"]
      [] OTHER -> [raised |-> "ClientResponseError", data |-> "none"]

\* _make_request, lines 45-63: what the response becomes.
OnStatus(end, body) ==
    CASE end = "200" -> [raised |-> "no", data |-> body]
      [] end = "404" -> [raised |-> "no", data |-> "{}"]
      [] end = "timeout" -> [raised |-> "TimeoutError", data |-> "none"]
      [] OTHER -> [raised |-> "ClientResponseError", data |-> "none"]

\* CivitAIApiClient._make_request: the exception or the data, and whether a
\* GET went out.  (A closed aiohttp session refuses to send: RuntimeError.)
make_request(end, body) ==
    IF NoSession(session) THEN [raised |-> "RuntimeError", data |-> "none", gets |-> 0]
    ELSE IF session # "open" THEN [raised |-> "RuntimeError", data |-> "none", gets |-> 0]
    ELSE [raised |-> OnStatus(end, body).raised, data |-> OnStatus(end, body).data,
          gets |-> 1]

\* What the read makes of the data: `response.get("items", [])` for the
\* search, `response if response else None` for the others.
ReadValue(op, response) ==
    IF op = "search_models_by_name"
      THEN (IF response = "object" THEN "items" ELSE "[]")
      ELSE (IF response = "object" THEN "record" ELSE "None")

\* A GET that goes out: the URL asked for (arg), the URL sent, whether the
\* session adds the bearer header, and where the caller was.
Request(op, arg, u) ==
    [op |-> op, arg |-> arg, url |-> u, bearer |-> session_auth, at |-> spc]

\* search_models_by_name / get_model_by_id / get_model_version
Read(op, end, body) ==
    /\ owner = "CivitAIApiClient"
    /\ spc # "idle"
    /\ calls < MaxCalls
    /\ LET r == make_request(end, body) IN
       /\ sent' = IF r.gets = 1 THEN Append(sent, Request(op, <<>>, <<>>)) ELSE sent
       /\ last' = [op |-> op, end |-> end, raised |-> r.raised,
                   value |-> IF r.raised = "no" THEN ReadValue(op, r.data) ELSE "none",
                   gets |-> r.gets, session |-> session]
    /\ calls' = calls + 1
    /\ UNCHANGED <<owner, api_key, session, session_auth, spc>>
    /\ UNCHANGED <<dvars, rvars, bvars, tvars, fvars, ovars>>

\* FileDownloader.add_api_key_to_url
add_api_key_to_url(u) ==
    IF ~Truthy(api_key) THEN u
    ELSE IF \E i \in DOMAIN u : u[i] \in {"?type=", "?mv=", "?m=", "?token="}
      THEN u \o <<"&token=">> \o api_key
    ELSE u \o <<"?token=">> \o api_key

\* Faulty variant: the token is added whenever there is a key
download_url_TokenToo(u) == add_api_key_to_url(u)

\* `download_url = url if self.api_key else self.add_api_key_to_url(url)`
download_url(u) == IF Truthy(api_key) THEN u ELSE add_api_key_to_url(u)

\* One `self.session.get(download_url)` of download_file.  Without a
\* session (AttributeError) or on a closed one (RuntimeError) nothing goes
\* out and download_file handles the exception.
Download(u) ==
    /\ owner = "FileDownloader"
    /\ spc # "idle"
    /\ calls < MaxCalls
    /\ sent' = IF session = "open"
                 THEN Append(sent, Request("download", u, download_url(u)))
                 ELSE sent
    /\ last' = [op |-> "download", end |-> "none",
                raised |-> CASE session = "open" -> "no"
                             [] session = "none" -> "AttributeError"
                             [] OTHER -> "RuntimeError",
                value |-> "none", gets |-> IF session = "open" THEN 1 ELSE 0,
                session |-> session]
    /\ calls' = calls + 1
    /\ UNCHANGED <<owner, api_key, session, session_auth, spc>>
    /\ UNCHANGED <<dvars, rvars, bvars, tvars, fvars, ovars>>

----------------------------------------------------------------------------
(***************************************************************************)
(* Part IV.  URLPreprocessor.process_csv_file.  A line of the file is a    *)
(* sequence of fields, a field a string.                                   *)
(***************************************************************************)
\* resolve_url as a function of its arguments and of what its lookups are
\* answered: its result, or Raised when it ends by an AttributeError.
Raised == [ok |-> FALSE, value |-> AttributeError]
resolve_url(u, hint, vr, mr, sr) ==
    LET c == identify_url_type(u)
        by_version ==
            IF /\ c.url_type \in VersionLookupTypes
               /\ "model_version_id" \in DOMAIN c.data
               /\ ~ReturnsNone(vr)
              THEN vr.body.downloadUrl ELSE None
        by_model ==
            IF /\ c.url_type \in ModelLookupTypes
               /\ "model_id" \in DOMAIN c.data
               /\ ~ReturnsNone(mr)
              THEN get_best_download_url(mr.body, Get(c.data, "model_version_id"))
              ELSE None
        by_search ==
            IF /\ SearchesByName(hint, c.url_type)
               /\ ~ReturnsNone(sr) /\ sr.body # <<>>
              THEN get_best_download_url(sr.body[1], None) ELSE None
    IN IF c.url_type = "download_url" THEN Success(u)
       ELSE IF Truthy(by_version) THEN Success(by_version)
       ELSE IF by_model = AttributeError THEN Raised
       ELSE IF Truthy(by_model) THEN Success(by_model)
       ELSE IF by_search = AttributeError THEN Raised
       ELSE IF Truthy(by_search) THEN Success(by_search)
       ELSE Unresolved(u)

\* The answers the lookups of one row are drawn from: model records and
\* search results of at most one record with at most one version.
RowModelReplies ==
    Replies({[modelVersions |-> vs] : vs \in SeqsUpTo(ModelVersions, 1)},
            [modelVersions |-> <<>>])
RowSearchReplies == Replies({<<>>} \cup {<<r>> : r \in SearchRecords}, <<>>)

\* The results resolve_url can have for a row (it makes the lookup of the
\* type of the url: of the version, of the model, or the search).
RowOutcomes(u, hint) ==
    LET t == identify_url_type(u).url_type IN
    IF t \in VersionLookupTypes
      THEN {resolve_url(u, hint, vr, NoReplies.model, NoReplies.search) :
               vr \in VersionReplies}
    ELSE IF t \in ModelLookupTypes
      THEN {resolve_url(u, hint, NoReplies.version, mr, NoReplies.search) :
               mr \in RowModelReplies}
    ELSE {resolve_url(u, hint, NoReplies.version, NoReplies.model, sr) :
               sr \in RowSearchReplies}

\* The lines of a file: the header, a row of two fields, rows of four
\* fields (SrNo, Model_ID, Model_Name, Model_URL) and a row of five.
HeaderLine == <<<<"SrNo">>, <<"Model_ID">>, <<"Model_Name">>, <<"Model_URL">>>>
ShortRow == <<<<"1">>, <<"1">>>>
RowNames == {<<"x">>}
RowUrls == {<<>>, <<"DL", "1">>, <<"1">>}
DataRows == {<<<<"1">>, <<"1">>, n, u>> : n \in RowNames, u \in RowUrls}
LongRow == <<<<"1">>, <<"1">>, <<"x">>, <<"1">>, <<"x">>>>
\* a row with neither a name nor a url
NamelessRow == <<<<"1">>, <<"1">>, <<>>, <<>>>>
Lines == {HeaderLine, ShortRow, LongRow, NamelessRow} \cup DataRows

NoTally == [total |-> 0, resolved |-> 0, failed |-> 0]

BIdle ==
    /\ csv_file = <<>>
    /\ headers = None
    /\ rows = <<>>
    /\ row_i = 0
    /\ tally = NoTally
    /\ resolver_calls = <<>>
    /\ out_file = None
    /\ returned = None
    /\ bpc = "idle"
    /\ catalog = <<>>
    /\ models = <<>>
    /\ cpc = "idle"

\* A call of process_csv_file on a file of at most MaxLines lines.
BInit ==
    /\ csv_file \in SeqsUpTo(Lines, MaxLines)
    /\ headers = None
    /\ rows = <<>>
    /\ row_i = 0
    /\ tally = NoTally
    /\ resolver_calls = <<>>
    /\ out_file = None
    /\ returned = None
    /\ bpc = "start"
    /\ catalog = <<>>
    /\ models = <<>>
    /\ cpc = "start"

\* process_csv_file, lines 254-284: the file is read; the first line is
\* taken as the header, the others as rows.  A file that is missing or
\* cannot be read, has no first line or no row, returns (0, 0, 0).
ReadCsv(readable) ==
    /\ bpc = "start"
    /\ IF ~readable \/ Len(csv_file) <= 1
         THEN /\ returned' = <<0, 0, 0>>
              /\ bpc' = "returned"
              /\ headers' = IF readable /\ csv_file # <<>> THEN Head(csv_file) ELSE None
              /\ UNCHANGED <<rows, row_i>>
         ELSE /\ headers' = Head(csv_file)
              /\ rows' = Tail(csv_file)
              /\ row_i' = 1
              /\ bpc' = "loop"
              /\ UNCHANGED returned
    /\ UNCHANGED <<csv_file, tally, resolver_calls, out_file>>
    /\ UNCHANGED <<catalog, models, cpc>>
    /\ UNCHANGED <<dvars, rvars, svars, tvars, fvars, ovars>>

\* Faulty variant: a row of four fields is skipped too
Insufficient_Five(row) == Len(row) < 5

\* `if len(row) < 4`
Insufficient(row) == Len(row) < 4

\* Faulty variant: the result is written over the name of the row
Rewrite_Name(row, result) == IF result.ok THEN [row EXCEPT ![3] = result.value] ELSE row

\* `if success: row[3] = result`
Rewrite(row, result) == IF result.ok THEN [row EXCEPT ![4] = result.value] ELSE row

\* One turn of the loop over the rows, lines 288-307.  An exception of
\* resolve_url is not caught: it ends process_csv_file.
ProcessRow ==
    /\ bpc = "loop"
    /\ row_i <= Len(rows)
    /\ LET row == rows[row_i] IN
       IF Insufficient(row)
         THEN /\ row_i' = row_i + 1
              /\ UNCHANGED <<rows, tally, resolver_calls, bpc>>
         ELSE \E result \in RowOutcomes(row[4], row[3]) :
              /\ resolver_calls' =
                    Append(resolver_calls,
                           [row |-> row_i, url |-> row[4], model_name |-> row[3],
                            result |-> result])
              /\ IF result = Raised
                   THEN /\ bpc' = "raised"
                        /\ tally' = [tally EXCEPT !.total = @ + 1]
                        /\ UNCHANGED <<rows, row_i>>
                   ELSE /\ rows' = [rows EXCEPT ![row_i] = Rewrite(row, result)]
                        /\ tally' = IF result.ok
                                      THEN [tally EXCEPT !.total = @ + 1, !.resolved = @ + 1]
                                      ELSE [tally EXCEPT !.total = @ + 1, !.failed = @ + 1]
                        /\ row_i' = row_i + 1
                        /\ UNCHANGED bpc
    /\ UNCHANGED <<csv_file, headers, out_file, returned>>
    /\ UNCHANGED <<catalog, models, cpc>>
    /\ UNCHANGED <<dvars, rvars, svars, tvars, fvars, ovars>>

\* Faulty variant: the rows of fewer than 4 fields are left out
Written_WellFormedOnly(hs, rs) ==
    <<hs>> \o SelectSeq(rs, LAMBDA row : Len(row) >= 4)

\* `writer.writerow(headers); writer.writerows(rows)`
Written(hs, rs) == <<hs>> \o rs

\* process_csv_file, lines 309-320: the header and all rows are written
\* (an error of the write is logged) and the counts are returned.
WriteCsv(writable) ==
    /\ bpc = "loop"
    /\ row_i > Len(rows)
    /\ out_file' = IF writable THEN Written(headers, rows) ELSE out_file
    /\ returned' = <<tally.total, tally.resolved, tally.failed>>
    /\ bpc' = "returned"
    /\ UNCHANGED <<csv_file, headers, rows, row_i, tally, resolver_calls>>
    /\ UNCHANGED <<catalog, models, cpc>>
    /\ UNCHANGED <<dvars, rvars, svars, tvars, fvars, ovars>>

(***************************************************************************)
(* CSVProcessor.read_model_csv (src/src/utils/model_manager.py).           *)
(***************************************************************************)
\* `row[0].lower() in ['srno', 'sr no', 'index']`
HeaderMarkers == {<<"srno">>, <<"sr no">>, <<"index">>}

\* `if len(row) < 4 or row[0].lower() in [...]: continue`
NotARow(row) == Len(row) < 4 \/ Lower(row[1]) \in HeaderMarkers

\* Faulty variant: a row with a blank url is dropped
Usable_UrlOnly(row) == Strip(row[3]) # <<>> /\ Strip(row[4]) # <<>>

\* `if model_name.strip() and (url.strip() or model_id.strip())`
Usable(row) ==
    Strip(row[3]) # <<>> /\ (Strip(row[4]) # <<>> \/ Strip(row[2]) # <<>>)

\* The tuple appended for a row: its first four fields, stripped
ModelTuple(row) == <<Strip(row[1]), Strip(row[2]), Strip(row[3]), Strip(row[4])>>

\* The loop of read_model_csv over the lines of the file, lines 29-44
read_model_csv(file) ==
    LET F[i \in 0..Len(file)] ==
            IF i = 0 THEN <<>>
            ELSE IF ~NotARow(file[i]) /\ Usable(file[i])
                   THEN Append(F[i - 1], ModelTuple(file[i]))
                   ELSE F[i - 1]
    IN F[Len(file)]

\* The file at csv_path: process_csv_file writes to the path it read from
\* (output_path defaults to csv_path).
DiskFile == IF out_file # None THEN out_file ELSE csv_file

\* A call of read_model_csv, lines 21-49: a file that does not exist or is
\* of size 0 gives the empty list.  The call is synchronous and
\* process_csv_file is awaited by its caller, so it does not run while
\* process_csv_file does.
ReadModelCsv(exists) ==
    /\ cpc = "start"
    /\ bpc \in {"idle", "returned", "raised"}
    /\ catalog' = IF exists THEN DiskFile ELSE <<>>
    /\ models' = IF exists /\ DiskFile # <<>> THEN read_model_csv(DiskFile) ELSE <<>>
    /\ cpc' = IF exists THEN "read" ELSE "missing"
    /\ UNCHANGED <<csv_file, headers, rows, row_i, tally, resolver_calls, out_file,
                   returned, bpc>>
    /\ UNCHANGED <<dvars, rvars, svars, tvars, fvars, ovars>>

\* The lines of a file given to read_model_csv: rows of four fields with
\* and without surrounding blanks, header lines, an empty line, a row of
\* two fields and a row of five.
IndexFields == {<<"1">>, <<" ", "1">>, <<"Sr No">>, <<" ", "srno">>}
IdFields == {<<>>, <<"1">>}
NameFields == {<<" ">>, <<" ", "x">>}
UrlFields == {<<>>, <<" ">>, <<"DL", "1", " ">>}
CatalogLines ==
    {<<n, i, m, u>> : n \in IndexFields, i \in IdFields, m \in NameFields, u \in UrlFields}
        \cup {<<>>, ShortRow, LongRow}

\* A call of read_model_csv on a file of at most MaxCatalogLines lines that
\* process_csv_file has not touched.
KInit ==
    /\ csv_file \in SeqsUpTo(CatalogLines, MaxCatalogLines)
    /\ headers = None
    /\ rows = <<>>
    /\ row_i = 0
    /\ tally = NoTally
    /\ resolver_calls = <<>>
    /\ out_file = None
    /\ returned = None
    /\ bpc = "idle"
    /\ catalog = <<>>
    /\ models = <<>>
    /\ cpc = "start"

----------------------------------------------------------------------------
(***************************************************************************)
(* Part V.  URLPreprocessor.process_text_file at one line of the file,     *)
(* against an upstream API that holds two models, named "x" (id 1) and     *)
(* "y" (id 11), and two versions (ids 1 and 11); owner_of says which model *)
(* each version belongs to.  Model ids and version ids are two numberings. *)
(***************************************************************************)
NameOf(m) == IF m = <<"1">> THEN <<"x">> ELSE <<"y">>
VersionOrder == << <<"1">>, <<"1", "1">> >>
VersionEntry(v) ==
    [json |-> "object", id |-> v, downloadUrl |-> DownloadUrlOf(v), files |-> <<>>]
\* The versions of model m, as GET models/m lists them
VersionsOf(own, m) ==
    LET vs == SelectSeq(VersionOrder, LAMBDA v : own[v] = m)
    IN [i \in DOMAIN vs |-> VersionEntry(vs[i])]

\* What the API answers when it is reached (`up`), else the request fails
ApiVersion(own, v, up) ==
    IF ~up THEN [status |-> "exception", body |-> [downloadUrl |-> None]]
    ELSE IF v \in Ids THEN [status |-> "200", body |-> [downloadUrl |-> DownloadUrlOf(v)]]
    ELSE [status |-> "404", body |-> [downloadUrl |-> None]]
ApiModel(own, m, up) ==
    IF ~up THEN [status |-> "exception", body |-> [modelVersions |-> <<>>]]
    ELSE IF m \in Ids THEN [status |-> "200", body |-> [modelVersions |-> VersionsOf(own, m)]]
    ELSE [status |-> "404", body |-> [modelVersions |-> <<>>]]
ApiSearch(own, query, up) ==
    IF ~up THEN [status |-> "exception", body |-> <<>>]
    ELSE LET ms == SelectSeq(VersionOrder, LAMBDA m : NameOf(m) = Lower(query))
         IN [status |-> "200",
             body |-> [i \in DOMAIN ms |->
                          [name |-> NameOf(ms[i]), modelVersions |-> VersionsOf(own, ms[i])]]]

\* resolve_url(session, line, line) against this API
ResolveLine(own, l, up) ==
    LET c == identify_url_type(l) IN
    resolve_url(l, l,
                ApiVersion(own, Get(c.data, "model_version_id"), up),
                ApiModel(own, Get(c.data, "model_id"), up),
                ApiSearch(own, l, up))

\* str.startswith('http') and str.isdigit()
StartsWithHttp(s) == s # <<>> /\ s[1] \in {"DL", "MP"}
IsDigitString(s) == s # <<>> /\ \A i \in DOMAIN s : IsDigit(s[i])

\* `not (original_input.startswith('http') or original_input.isdigit())`
LooksLikeName(s) == ~(StartsWithHttp(s) \/ IsDigitString(s))

\* URLPreprocessor.extract_model_id_from_url
extract_model_id_from_url(u) ==
    IF MatchDownloadUrl(u) THEN SubSeq(u, 2, DigitsEnd(u, 2)) ELSE None

\* f"Model_{n}"
ModelPlaceholder(n) == <<"Model_">> \o n

\* What GET models/<id> of extract_model_name ends in: a record with its
\* name, a record with no name, or no record (get_model_info returns None).
NameInfos == {"named", "unnamed", "none"}

\* URLPreprocessor.extract_model_name: the name and the requests issued
extract_model_name(dl_url, original_input, info) ==
    IF LooksLikeName(original_input)
      THEN [name |-> original_input, calls |-> <<>>]
    ELSE LET model_id == extract_model_id_from_url(dl_url) IN
         IF ~Truthy(model_id) THEN [name |-> None, calls |-> <<>>]
         ELSE [name |-> IF info = "named" /\ model_id \in Ids THEN NameOf(model_id)
                        ELSE IF info = "unnamed" /\ model_id \in Ids
                          THEN ModelPlaceholder(model_id)
                        ELSE None,
               calls |-> <<Call("models", model_id)>>]

\* `x or y`
Or(x, y) == IF Truthy(x) THEN x ELSE y

\* The lines of the text file, stripped and not empty: the strings of at
\* most MaxLineLen tokens and the model-page URLs with a version parameter
TextLines ==
    {l \in Strings(MaxLineLen) \cup VersionPageUrls : l # <<>> /\ Strip(l) = l}

TIdle ==
    /\ line = <<>>
    /\ owner_of = [v \in Ids |-> v]
    /\ text_row = <<>>
    /\ name_calls = <<>>
    /\ tpc = "idle"

\* process_text_file reaches a line, the first of the file
TInit ==
    /\ line \in TextLines
    /\ owner_of \in [Ids -> Ids]
    /\ text_row = <<>>
    /\ name_calls = <<>>
    /\ tpc = "start"

\* One turn of the loop of process_text_file, lines 367-401, for the line
\* of index 0.  An exception of resolve_url ends process_text_file.
TextLine(up, info) ==
    /\ tpc = "start"
    /\ LET result == ResolveLine(owner_of, line, up) IN
       IF result = Raised
         THEN /\ tpc' = "raised"
              /\ UNCHANGED <<text_row, name_calls>>
       ELSE IF result.ok
         THEN LET named == extract_model_name(result.value, line, info) IN
              /\ text_row' = << <<"1">>,
                                Or(extract_model_id_from_url(result.value), <<"Unknown">>),
                                Or(named.name, ModelPlaceholder(<<"1">>)),
                                result.value >>
              /\ name_calls' = named.calls
              /\ tpc' = "resolved"
       ELSE /\ text_row' = << <<"1">>, <<"Failed">>, line, line >>
            /\ UNCHANGED name_calls
            /\ tpc' = "failed"
    /\ UNCHANGED <<line, owner_of>>
    /\ UNCHANGED <<dvars, rvars, svars, bvars, fvars, ovars>>

----------------------------------------------------------------------------
(***************************************************************************)
(* Part VI.  CivitAIApiClient.find_download_url and extract_download_url   *)
(* (src/src/api/client.py).                                                *)
(***************************************************************************)
\* A key that the JSON object does not have
Missing == <<"missing">>

\* The files of a version: their format and whether they are primary
ClientFiles == {[format |-> "safetensor", primary |-> TRUE, name |-> "a"],
                [format |-> "other", primary |-> FALSE, name |-> "a"]}
\* The scan of extract_download_url over the files, lines 124-143: the
\* state after the first i files, and the file chosen
NoFile == [format |-> "none", primary |-> FALSE, name |-> "none"]
ScanFiles(files) ==
    LET F[i \in 0..Len(files)] ==
            IF i = 0
              THEN [safetensor_file |-> NoFile, primary_file |-> NoFile,
                    any_file |-> NoFile, broke |-> FALSE, seen |-> 0]
            ELSE LET before == F[i - 1]
                     file == files[i]
                 IN IF before.broke THEN before
                    ELSE IF file.format = "safetensor"
                      THEN IF file.primary
                             THEN [before EXCEPT !.safetensor_file = file, !.broke = TRUE,
                                                 !.seen = i]
                             ELSE [before EXCEPT !.safetensor_file = file,
                                                 !.any_file = IF @ = NoFile THEN file ELSE @,
                                                 !.seen = i]
                    ELSE IF file.primary
                      THEN [before EXCEPT !.primary_file = file,
                                          !.any_file = IF @ = NoFile THEN file ELSE @,
                                          !.seen = i]
                    ELSE [before EXCEPT !.any_file = IF @ = NoFile THEN file ELSE @,
                                        !.seen = i]
    IN F[Len(files)]
ChosenFile(files) ==
    LET st == ScanFiles(files) IN
    IF st.safetensor_file # NoFile THEN st.safetensor_file
    ELSE IF st.primary_file # NoFile THEN st.primary_file
    ELSE st.any_file

\* The versions of a record: with a downloadUrl, with a null downloadUrl,
\* and without one, with and without files and id.
ClientVersions ==
    {[id |-> v, downloadUrl |-> DownloadUrlOf(v), files |-> <<>>] : v \in Ids}
    \cup {[id |-> <<"1">>, downloadUrl |-> None, files |-> <<>>]}
    \cup {[id |-> i, downloadUrl |-> Missing, files |-> fl] :
             i \in {None, <<"1">>}, fl \in SeqsUpTo(ClientFiles, 1)}
\* The records of the API: a name and at most one version
ClientRecords ==
    {[name |-> n, modelVersions |-> vs] :
        n \in RecordNames, vs \in SeqsUpTo(ClientVersions, 1)}

\* CivitAIApiClient.extract_download_url, for a record that is not empty
extract_download_url(model_data) ==
    LET model_versions == model_data.modelVersions IN
    IF model_versions = <<>> THEN None
    ELSE LET latest_version == model_versions[1] IN
         IF latest_version.downloadUrl # Missing THEN latest_version.downloadUrl
         ELSE IF latest_version.files = <<>> THEN None
         ELSE IF ChosenFile(latest_version.files) # NoFile /\ Truthy(latest_version.id)
           THEN DownloadUrlOf(latest_version.id)
         ELSE None

\* What a call of get_model_by_id ends in: a record, None (a 404), or an
\* exception (another status, a timeout); and a call of
\* search_models_by_name: a list of records or an exception.  The records
\* of a list are those whose version, if any, has a downloadUrl key; the
\* records found by id take every form.
NoRecord == [name |-> <<>>, modelVersions |-> <<>>]
IdAnswers ==
    {[end |-> "record", value |-> r] : r \in ClientRecords}
    \cup {[end |-> e, value |-> NoRecord] : e \in {"None", "raised"}}
SearchedRecords ==
    {r \in ClientRecords :
        r.modelVersions # <<>> => r.modelVersions[1].downloadUrl # Missing}
SearchAnswers ==
    {[end |-> "list", value |-> rs] : rs \in SeqsUpTo(SearchedRecords, MaxResults)}
    \cup {[end |-> "raised", value |-> <<>>]}

\* The arguments of find_download_url
FindArgs ==
    {[model_name |-> <<"x">>, model_id |-> i, model_type |-> t] :
        i \in {None, <<"1">>, <<"x">>}, t \in {None, <<"lora">>}}
NoArgs == [model_name |-> <<>>, model_id |-> None, model_type |-> None]

FIdle ==
    /\ find_args = NoArgs
    /\ find_calls = <<>>
    /\ find_result = None
    /\ fpc = "idle"

FInit ==
    /\ find_args \in FindArgs
    /\ find_calls = <<>>
    /\ find_result = None
    /\ fpc = "start"

FindCall(op, arg, answer) == [op |-> op, arg |-> arg, answer |-> answer]

\* `model_id and model_id.isdigit()`
UsableId(model_id) == Truthy(model_id) /\ IsDigitString(model_id)

\* find_download_url, lines 167-173: the lookup by id.  An exception is
\* caught by the `except` of line 192 and None is returned.
FindById(answer) ==
    /\ fpc = "start"
    /\ UsableId(find_args.model_id)
    /\ find_calls' = Append(find_calls,
                            FindCall("get_model_by_id", <<find_args.model_id>>,
                                     [end |-> answer.end, value |-> <<answer.value>>]))
    /\ LET download_url_ == IF answer.end = "record"
                              THEN extract_download_url(answer.value) ELSE None
       IN IF answer.end = "raised"
            THEN find_result' = None /\ fpc' = "done"
          ELSE IF Truthy(download_url_)
            THEN find_result' = download_url_ /\ fpc' = "done"
          ELSE find_result' = None /\ fpc' = "search"
    /\ UNCHANGED find_args
    /\ UNCHANGED <<dvars, rvars, svars, bvars, tvars, ovars>>

\* `if model_id and model_id.isdigit()` is false
SkipId ==
    /\ fpc = "start"
    /\ ~UsableId(find_args.model_id)
    /\ fpc' = "search"
    /\ UNCHANGED <<find_args, find_calls, find_result>>
    /\ UNCHANGED <<dvars, rvars, svars, bvars, tvars, ovars>>

\* Faulty variant: the first record is taken whatever the names
FromResults_FirstOnly(search_results, name) ==
    IF search_results # <<>> /\ Truthy(extract_download_url(search_results[1]))
      THEN extract_download_url(search_results[1])
    ELSE None

\* The loops of lines 179-190 over the results of the search: the first
\* record of the same name, up to case, that gives a URL; else the first
\* record if it gives one; else None
FromResults(search_results, name) ==
    LET exact == {i \in DOMAIN search_results :
                     /\ Lower(search_results[i].name) = Lower(name)
                     /\ Truthy(extract_download_url(search_results[i]))}
    IN IF exact # {}
         THEN extract_download_url(search_results[CHOOSE i \in exact : \A j \in exact : i <= j])
       ELSE IF search_results # <<>> /\ Truthy(extract_download_url(search_results[1]))
         THEN extract_download_url(search_results[1])
       ELSE None

\* find_download_url, lines 176-195: the search by name
FindByName(answer) ==
    /\ fpc = "search"
    /\ find_calls' = Append(find_calls,
                            FindCall("search_models_by_name",
                                     <<find_args.model_name, find_args.model_type>>,
                                     answer))
    /\ find_result' = IF answer.end = "raised" THEN None
                      ELSE FromResults(answer.value, find_args.model_name)
    /\ fpc' = "done"
    /\ UNCHANGED find_args
    /\ UNCHANGED <<dvars, rvars, svars, bvars, tvars, ovars>>

----------------------------------------------------------------------------
(***************************************************************************)
(* Part VII.  The file scan of CivitAIApiClient.extract_download_url       *)
(* (src/src/api/client.py, lines 123-143) on its own, over files that      *)
(* carry a name, so that two files of the same format and primary flag     *)
(* can be told apart.                                                      *)
(***************************************************************************)
ScannedFiles ==
    {[format |-> f, primary |-> p, name |-> n] :
        f \in {"safetensor", "other"}, p \in BOOLEAN, n \in {"a", "b"}}

NoScan == [files |-> <<>>, chosen_file |-> NoFile, seen |-> 0, pc |-> "idle"]

\* download_model_type not called
NoOrch == [api_key |-> None, models |-> <<>>, download_tasks |-> <<>>,
           handed |-> <<>>, results |-> <<>>, returned |-> <<>>, pc |-> "idle"]

OIdle == scan = NoScan /\ orch = NoOrch

OInit ==
    /\ scan \in {[files |-> fl, chosen_file |-> NoFile, seen |-> 0, pc |-> "start"] :
                    fl \in SeqsUpTo(ScannedFiles, MaxFiles)}
    /\ orch = NoOrch

\* The loop of lines 128-140 and `chosen_file = safetensor_file or
\* primary_file or any_file`; `seen` is the number of files the loop visited.
Scan ==
    /\ scan.pc = "start"
    /\ scan' = [scan EXCEPT !.chosen_file = ChosenFile(scan.files),
                            !.seen = ScanFiles(scan.files).seen,
                            !.pc = "done"]
    /\ UNCHANGED orch
    /\ UNCHANGED <<dvars, rvars, svars, bvars, tvars, fvars>>

----------------------------------------------------------------------------
(***************************************************************************)
(* Part VIII.  CivitAIDownloaderCLI.download_model_type (src/download.py)  *)
(* with ModelManager.prepare_download_tasks                                *)
(* (src/src/utils/model_manager.py) for the catalog of one model type.     *)
(* The download engine is Part I; here it answers every task it is handed  *)
(* with one outcome.                                                       *)
(***************************************************************************)
\* The tuples read_model_csv returns for the catalog: a row has a name and
\* an id, and a URL or none.
OrchModels ==
    {[model_id |-> <<"1">>, model_name |-> <<"x">>, url |-> u] :
        u \in {<<>>, DownloadUrlOf(<<"1">>)}}

\* A download task of the row at index i: its URL and the path
\* download_path / f"{model_name}.safetensors"
TaskOf(ms, i) == [url |-> ms[i].url, row |-> i]

\* prepare_download_tasks, lines 121-129: the rows with a URL, in order,
\* and the rows without
WithUrl(ms) ==
    LET F[i \in 0..Len(ms)] ==
            IF i = 0 THEN <<>>
            ELSE IF ms[i].url # <<>> THEN Append(F[i - 1], TaskOf(ms, i))
            ELSE F[i - 1]
    IN F[Len(ms)]
MissingUrl(ms) == {i \in DOMAIN ms : ms[i].url = <<>>}

\* What calling the handler gives: self.resolve_missing_urls is an
\* `async def`, and line 133 calls it without awaiting it, so the value is
\* a coroutine object; `download_tasks.extend` of it raises TypeError.
\* (a value of the call is a coroutine object or a list; what a function
\* gives is a list or an exception)
Coroutine == [coroutine |-> TRUE, list |-> <<>>]
TypeError(tasks) == [raised |-> "TypeError", tasks |-> tasks]
Tasklist(tasks) == [raised |-> "no", tasks |-> tasks]
CallHandler(missing_url_tasks) == Coroutine
Extended(tasks, resolved_tasks) ==
    IF resolved_tasks.coroutine THEN TypeError(tasks)
    ELSE Tasklist(tasks \o resolved_tasks.list)

\* ModelManager.prepare_download_tasks with the handler of
\* download_model_type
prepare_download_tasks(ms) ==
    IF ms = <<>> THEN Tasklist(<<>>)
    ELSE IF MissingUrl(ms) # {}
      THEN Extended(WithUrl(ms), CallHandler(MissingUrl(ms)))
    ELSE Tasklist(WithUrl(ms))

PInit ==
    /\ orch \in {[NoOrch EXCEPT !.api_key = k, !.models = ms, !.pc = "start"] :
                    k \in {None, <<"k">>}, ms \in SeqsUpTo(OrchModels, MaxModels)}
    /\ scan = NoScan

\* download_model_type, lines 352-365: the tasks are prepared; the
\* exception of prepare_download_tasks leaves download_model_type, and with
\* no task (0, 0) is returned.
PrepareTasks ==
    /\ orch.pc = "start"
    /\ LET prepared == prepare_download_tasks(orch.models) IN
       orch' = IF prepared.raised # "no"
                 THEN [orch EXCEPT !.pc = "raised"]
               ELSE IF prepared.tasks = <<>>
                 THEN [orch EXCEPT !.returned = <<0, 0>>, !.pc = "returned"]
               ELSE [orch EXCEPT !.download_tasks = prepared.tasks, !.pc = "prepared"]
    /\ UNCHANGED scan
    /\ UNCHANGED <<dvars, rvars, svars, bvars, tvars, fvars>>

\* The results of download_files for the tasks handed to it: one outcome
\* per task
EngineOutcomes == {[ok |-> TRUE, kind |-> "Downloaded"],
                   [ok |-> TRUE, kind |-> "Skipped (already exists)"],
                   [ok |-> FALSE, kind |-> "HTTP"]}
EngineResults(tasks) == {rs \in SeqsUpTo(EngineOutcomes, Len(tasks)) : Len(rs) = Len(tasks)}

\* download_model_type, lines 369-400: the tasks go to download_files and
\* (downloaded, failed) is returned.
DownloadTasks(rs) ==
    /\ orch.pc = "prepared"
    /\ rs \in EngineResults(orch.download_tasks)
    /\ orch' = [orch EXCEPT
                  !.handed = orch.download_tasks,
                  !.results = rs,
                  !.returned =
                      <<Cardinality({i \in DOMAIN rs :
                                       rs[i].ok /\ rs[i].kind = "Downloaded"}),
                        Cardinality({i \in DOMAIN rs : ~rs[i].ok})>>,
                  !.pc = "returned"]
    /\ UNCHANGED scan
    /\ UNCHANGED <<dvars, rvars, svars, bvars, tvars, fvars>>

----------------------------------------------------------------------------
(***************************************************************************)
(* The specifications.                                                     *)
(***************************************************************************)
\* download_files on a batch of tasks
Init == DInit /\ RIdle /\ SIdle /\ BIdle /\ TIdle /\ FIdle /\ OIdle
Next ==
    \/ CallDownloadFiles
    \/ \E t \in Tasks : StartTask(t)
    \/ \E t \in Tasks : Acquire(t)
    \/ \E t \in Tasks, r \in Responses \ {"200"} : RespondFailure(t, r)
    \/ \E t \in Tasks, cd \in BOOLEAN, io \in IoOutcomes : Respond200(t, cd, io)
    \/ \E t \in Tasks, w \in WriteOutcomes : FinishWrite(t, w)
    \/ \E t \in Tasks : Wake(t)
    \/ Collect
    \/ ReturnResults
Spec == Init /\ [][Next]_vars

\* The download engine under a running event loop: a coroutine that can run
\* is run, a request that is out ends, a sleep ends.
SpecLive == Init /\ [][Next]_vars /\ WF_vars(Next)

\* identify_url_type on every string of at most MaxLen tokens
InitClassify == CInit /\ DIdle /\ SIdle /\ BIdle /\ TIdle /\ FIdle /\ OIdle
NextClassify == Classify
SpecClassify == InitClassify /\ [][NextClassify]_vars

\* resolve_url on every input of ResolveInputs, with and without a name hint
InitResolve == RInit /\ DIdle /\ SIdle /\ BIdle /\ TIdle /\ FIdle /\ OIdle
NextResolve ==
    \/ ResolveStart
    \/ VersionStep
    \/ ModelStep
    \/ SearchStep
SpecResolve == InitResolve /\ [][NextResolve]_vars

\* a client or a downloader object, its `async with` and the calls on it
InitSession == SInit /\ DIdle /\ RIdle /\ BIdle /\ TIdle /\ FIdle /\ OIdle
NextSession ==
    \/ aenter
    \/ \E exc \in BOOLEAN : LeaveScope(exc)
    \/ \E op \in Reads, end \in GetEnds, body \in Bodies : Read(op, end, body)
    \/ \E u \in DownloadUrls : Download(u)
SpecSession == InitSession /\ [][NextSession]_vars

\* process_csv_file on every file of at most MaxLines lines
InitCsv == BInit /\ DIdle /\ RIdle /\ SIdle /\ TIdle /\ FIdle /\ OIdle
NextCsv ==
    \/ \E readable \in BOOLEAN : ReadCsv(readable)
    \/ ProcessRow
    \/ \E writable \in BOOLEAN : WriteCsv(writable)
    \/ \E exists \in BOOLEAN : ReadModelCsv(exists)
SpecCsv == InitCsv /\ [][NextCsv]_vars

\* process_text_file at a line, for every line and every ownership of
\* the versions
InitText == TInit /\ DIdle /\ RIdle /\ SIdle /\ BIdle /\ FIdle /\ OIdle
NextText == \E up \in BOOLEAN, info \in NameInfos : TextLine(up, info)
SpecText == InitText /\ [][NextText]_vars

\* find_download_url on every argument and every answer of the API
InitFind == FInit /\ DIdle /\ RIdle /\ SIdle /\ BIdle /\ TIdle /\ OIdle
NextFind ==
    \/ \E answer \in IdAnswers : FindById(answer)
    \/ SkipId
    \/ \E answer \in SearchAnswers : FindByName(answer)
SpecFind == InitFind /\ [][NextFind]_vars

\* read_model_csv on every file of at most MaxCatalogLines lines
InitCatalog == KInit /\ DIdle /\ RIdle /\ SIdle /\ TIdle /\ FIdle /\ OIdle
NextCatalog == \E exists \in BOOLEAN : ReadModelCsv(exists)
SpecCatalog == InitCatalog /\ [][NextCatalog]_vars

\* The file scan on every list of at most MaxFiles files
InitScan == OInit /\ DIdle /\ RIdle /\ SIdle /\ BIdle /\ TIdle /\ FIdle
NextScan == Scan
SpecScan == InitScan /\ [][NextScan]_vars

\* download_model_type on every catalog of at most MaxModels rows
InitOrch == PInit /\ DIdle /\ RIdle /\ SIdle /\ BIdle /\ TIdle /\ FIdle
NextOrch ==
    \/ PrepareTasks
    \/ \E rs \in EngineResults(orch.download_tasks) : DownloadTasks(rs)
SpecOrch == InitOrch /\ [][NextOrch]_vars

----------------------------------------------------------------------------
(***************************************************************************)
(* Properties.                                                             *)
(***************************************************************************)
\* The outcomes returned so far.
Outcomes == {finished[i] : i \in DOMAIN finished}

\* C1: at every instant at most max_concurrent_downloads download_file
\* calls are between acquiring and releasing a semaphore slot, however many
\* tasks were submitted.
C1_ConcurrencyBound == Cardinality(Holding) <= max_concurrent

\* More tasks than slots: every slot is taken and a task waits.
C1_Witness ==
    /\ Len(download_tasks) > max_concurrent
    /\ Cardinality(Holding) = max_concurrent
    /\ \E t \in Tasks : pc[t] = "waitsem"

TransientCauses == {"500", "timeout", "exception"}

\* The message of outcome o names the error that ended the last attempt.
DescribesLastError(o) ==
    CASE o.cause = "500" -> o.kind = "HTTP" /\ o.name = <<"500", o.task>>
      [] o.cause = "timeout" -> o.kind = "Timeout downloading" /\ o.name = Url(o.task)
      [] o.cause = "exception" -> o.kind = "Error downloading" /\ o.name = Url(o.task)
      [] OTHER -> FALSE

\* C2: no task issues more than retry_attempts requests, and a task whose
\* attempts all ended in a transient failure (so that its last attempt did)
\* has issued exactly retry_attempts requests and has a failed outcome whose
\* message describes the error of its last attempt.
C2_RetryBudget ==
    /\ \A t \in Tasks : requests[t] <= retry_attempts
    /\ \A o \in Outcomes :
          o.cause \in TransientCauses =>
             /\ ~o.ok
             /\ requests[o.task] = retry_attempts
             /\ DescribesLastError(o)

\* A task that was retried and failed on a 500 at its last attempt.
C2_Witness ==
    \E o \in Outcomes :
       o.cause = "500" /\ retry_attempts >= 2 /\ requests[o.task] = retry_attempts

\* C3: a task that has been answered 401 or 404 is finished with a failed
\* outcome carrying that status, and the request that was answered is the
\* last one it issued (the first one, when that was its first attempt): no
\* retry and no backoff follow.
C3_PermanentFailsAtOnce ==
    \A t \in refused :
       /\ pc[t] = "done"
       /\ requests[t] = attempt[t] + 1
       /\ \E o \in Outcomes : o.task = t /\ ~o.ok /\ o.cause \in {"401", "404"}

\* A 401 on the first attempt of a task that had attempts left.
C3_Witness ==
    \E t \in refused :
       /\ retry_attempts >= 2
       /\ requests[t] = 1
       /\ \E o \in Outcomes : o.task = t /\ o.cause = "401"

\* C4: with skip_existing_files on, a task whose destination existed when
\* download_file started never waits for or holds a slot and never issues a
\* request, and its outcome is the success "Skipped (already exists)" that
\* names the destination.
C4_SkipExisting ==
    \A t \in Tasks :
       skip_existing /\ fs[GuessPath(t)] = "old" =>
          /\ pc[t] \in {"none", "start", "done"}
          /\ requests[t] = 0
          /\ pc[t] = "done" =>
                \E o \in Outcomes :
                   /\ o.task = t /\ o.ok
                   /\ o.kind = "Skipped (already exists)"
                   /\ o.name = GuessPath(t)

\* A batch has returned in which an existing destination was skipped while
\* another task went to the network.
C4_Witness ==
    /\ dpc = "returned"
    /\ skip_existing
    /\ \E t \in Tasks : fs[GuessPath(t)] = "old" /\ pc[t] = "done"
    /\ \E t \in Tasks : requests[t] > 0

\* C5: the results are the outcomes of the tasks in the order in which the
\* tasks returned, and when download_files returns there is exactly one
\* result per submitted task (none for an empty batch).
C5_OneOutcomePerTask ==
    /\ Len(results) <= Len(finished)
    /\ results = SubSeq(finished, 1, Len(results))
    /\ dpc = "returned" =>
          /\ Len(results) = Len(download_tasks)
          /\ \A t \in Tasks :
                Cardinality({i \in DOMAIN results : results[i].task = t}) = 1

\* A returned batch whose second task completed first, one task having
\* succeeded and the other failed.
C5_Witness ==
    /\ dpc = "returned"
    /\ Len(results) >= 2
    /\ results[1].task = 2
    /\ results[1].ok # results[2].ok

\* C6: a local I/O failure becomes a failed outcome of that task: no task
\* reports success for a file that is what a failed write left behind (a
\* file no later attempt wrote again).
C6_IoFailureIsFailedOutcome ==
    \A o \in Outcomes : o.ok => fs[o.name] # "write_failed"

\* The canonical download URLs: the download endpoint followed by digits.
IsCanonical(u) == Len(u) >= 2 /\ u[1] = "DL" /\ \A i \in 2..Len(u) : IsDigit(u[i])

\* C7: resolve_url of a canonical download URL issues no API request and
\* returns success with the same string, whatever the name hint.
C7_CanonicalUnchanged ==
    IsCanonical(url) =>
       /\ api_calls = <<>>
       /\ rpc = "done" => resolved = Success(url)

\* A canonical URL has been resolved with a name hint at hand.
C7_Witness == rpc = "done" /\ IsCanonical(url) /\ model_name # <<>> /\ resolved.ok

\* C8: identify_url_type returns one of the classification variants for
\* every string, and a string urlparse cannot parse is classified as
\* unknown, carrying the trimmed string.
C8_ClassifierTotal ==
    rpc = "classified" =>
       /\ url_type \in UrlTypes
       /\ UrlParseRaises(Strip(url)) =>
             url_type = "unknown" /\ data = [original_url |-> Strip(url)]

\* An unparsable string with blanks around it has been classified.
C8_Witness ==
    rpc = "classified" /\ UrlParseRaises(Strip(url)) /\ Strip(url) # url
       /\ url_type = "unknown"

\* s is a model-page URL with a modelVersionId parameter: the model page of
\* an id, an optional name segment, then ?modelVersionId= and an id.
VersionParamUrl(s) ==
    /\ MatchModelPage(s)
    /\ LET e == DigitsEnd(s, 2) IN
       \E q \in e + 1..Len(s) - 1 :
          /\ s[q] = "?mv="
          /\ \A i \in e + 1..q - 1 : s[i] \notin {"?mv=", "?m="}
          /\ q > e + 1 => StartsWithSlash(s[e + 1])
          /\ \A i \in q + 1..Len(s) : IsDigit(s[i])

\* C9: every model-page URL with a modelVersionId parameter is classified
\* as a version page carrying the model id and the version id, with or
\* without a name segment.
C9_VersionParamIsVersionPage ==
    rpc = "classified" /\ VersionParamUrl(Strip(url)) =>
       LET s == Strip(url)
           q == CHOOSE i \in 1..Len(s) : s[i] = "?mv="
       IN /\ url_type = "model_version_page"
          /\ data = [model_id |-> SubSeq(s, 2, DigitsEnd(s, 2)),
                     model_version_id |-> SubSeq(s, q + 1, Len(s))]

\* C10: a version-page reference is not reported unresolvable before the
\* model of its model id has been looked up.
C10_VersionFallsBackToModel ==
    rpc = "done" /\ url_type = "model_version_page" /\ ~resolved.ok =>
       \E i \in DOMAIN api_calls : api_calls[i] = Call("models", data.model_id)


\* resolve_url has ended, by a return or by an exception.
ResolveEnded == rpc \in {"done", "raised"}

\* The first version of record r has an id and a qualifying file but no
\* downloadUrl.
FirstVersionHasFilesOnly(r) ==
    /\ r.modelVersions # <<>>
    /\ LET v == r.modelVersions[1] IN
       IsObject(v) /\ v.id # None /\ ~Truthy(v.downloadUrl) /\ v.files # <<>>

\* C11: once the model lookup has answered with a record whose first version
\* has an id and a qualifying file but no downloadUrl, resolve_url returns
\* success with the download URL of that version (no further step is taken).
C11_SynthesizedFromFiles ==
    replies.model.status = "200" /\ FirstVersionHasFilesOnly(replies.model.body) =>
       /\ rpc = "done"
       /\ resolved = Success(DownloadUrlOf(replies.model.body.modelVersions[1].id))

\* Lower case of a name ("X" is the only upper-case token).

\* The record the name search is to choose: the first one whose name is the
\* hint up to case, else the first one.
ChosenRecord(rs, hint) ==
    LET exact == {i \in DOMAIN rs : Lower(rs[i].name) = Lower(hint)}
    IN IF exact = {} THEN rs[1]
       ELSE rs[CHOOSE i \in exact : \A j \in exact : i <= j]

\* C12: for an input classified unknown with a name hint, resolve_url issues
\* exactly one name search, and when the record to choose (the one named as
\* the hint up to case, else the first) has a download URL in its first
\* version, that URL is the result.
C12_SearchPrefersExactName ==
    ResolveEnded /\ url_type = "unknown" /\ model_name # <<>> =>
       /\ api_calls = <<Call("search", model_name)>>
       /\ replies.search.status = "200" /\ replies.search.body # <<>> =>
             LET r == ChosenRecord(replies.search.body, model_name) IN
             (r.modelVersions # <<>> /\ IsObject(r.modelVersions[1])
                /\ Truthy(r.modelVersions[1].downloadUrl))
             => resolved = Success(r.modelVersions[1].downloadUrl)

\* C13: resolve_url never ends by an exception, whatever the lookups were
\* answered: it ends with a URL or with the failure that names the input.
C13_ResolveNeverRaises ==
    /\ rpc # "raised"
    /\ rpc = "done" => resolved.ok \/ resolved = Unresolved(url)

\* C14: every URL resolve_url returns with success is classified as a
\* download URL, so that resolving it again returns it unchanged without a
\* request.
C14_ResultIsCanonical ==
    rpc = "done" /\ resolved.ok =>
       identify_url_type(resolved.value).url_type = "download_url"


C16_ErrorStatusRaises ==
    last.op \in Reads /\ last.gets = 1 /\ last.end \in {"404", "500"} =>
       last.raised = "ClientResponseError"

\* C17: the session exists exactly while the `async with` block runs: none
\* before it, open inside it, closed after it however the block ended; every
\* request that went out did so inside the block, and a read without a
\* session raises RuntimeError and sends nothing.
C17_SessionScoped ==
    /\ spc = "before" => session = "none"
    /\ spc = "inside" => session = "open"
    /\ spc \in {"after", "after_exception"} => session = "closed"
    /\ \A i \in DOMAIN sent : sent[i].at = "inside"
    /\ last.op \in Reads /\ last.session = "none" =>
          last.raised = "RuntimeError" /\ last.gets = 0

\* The block ended by an exception after a request went out, and a call
\* made afterwards was refused.
C17_Witness ==
    /\ spc = "after_exception"
    /\ sent # <<>>
    /\ last.session = "closed" /\ last.gets = 0

\* The URL carries a token parameter.
HasToken(u) == \E i \in DOMAIN u : u[i] \in {"?token=", "&token="}

\* C18: a download request never carries both the bearer header and a token
\* parameter: with an api_key it has the header and the URL as given,
\* without one it has neither credential and the URL as given.
C18_OneCredential ==
    \A i \in DOMAIN sent :
       sent[i].op = "download" =>
          /\ ~(sent[i].bearer /\ HasToken(sent[i].url))
          /\ sent[i].url = sent[i].arg
          /\ sent[i].bearer = Truthy(api_key)

\* Requests went out with a key, for a URL that has a query, and (in
\* another run) without a key.
C18_Witness ==
    /\ owner = "FileDownloader"
    /\ Truthy(api_key)
    /\ \E i \in DOMAIN sent : sent[i].bearer /\ sent[i].arg = <<"DL", "1", "?type=">>

----------------------------------------------------------------------------
(***************************************************************************)
(* process_csv_file.                                                       *)
(***************************************************************************)
\* The data rows of the file: its lines after the first
DataRowsOf(file) == IF file = <<>> THEN <<>> ELSE Tail(file)
\* The data rows with at least 4 fields, by their position, in file order
WellFormedRows(file) ==
    LET d == DataRowsOf(file)
        F[i \in 0..Len(d)] ==
            IF i = 0 THEN <<>>
            ELSE IF Len(d[i]) >= 4 THEN Append(F[i - 1], i) ELSE F[i - 1]
    IN F[Len(d)]
\* The file was read and process_csv_file has returned
CsvReturned == bpc = "returned" /\ headers # None

\* C19: process_csv_file returns (total, resolved, failed) where total is
\* the number of data rows with at least 4 fields and resolved + failed =
\* total; the Resolver is never invoked for a row with fewer than 4 fields;
\* and a row whose resolution fails does not end the processing: the rows
\* after it are processed and the counts are returned.
C19_CountsEveryRow ==
    /\ bpc # "raised"
    /\ CsvReturned =>
          /\ returned[1] = Len(WellFormedRows(csv_file))
          /\ returned[2] + returned[3] = returned[1]
    /\ \A k \in DOMAIN resolver_calls :
          Len(DataRowsOf(csv_file)[resolver_calls[k].row]) >= 4

\* C19, the part that holds: whenever process_csv_file returns, the counts
\* are as stated, and only rows with at least 4 fields are resolved.
CountsWhenReturned ==
    /\ CsvReturned =>
          /\ returned[1] = Len(WellFormedRows(csv_file))
          /\ returned[2] + returned[3] = returned[1]
    /\ \A k \in DOMAIN resolver_calls :
          Len(DataRowsOf(csv_file)[resolver_calls[k].row]) >= 4

C21_OnlyResolvedUrlsChange ==
    LET d == DataRowsOf(csv_file) IN
    /\ \A j, k \in DOMAIN resolver_calls :
          j < k => resolver_calls[j].row < resolver_calls[k].row
    /\ \A i \in DOMAIN rows :
          /\ Len(rows[i]) = Len(d[i])
          /\ \A f \in DOMAIN rows[i] :
                \/ rows[i][f] = d[i][f]
                \/ /\ f = 4
                   /\ \E k \in DOMAIN resolver_calls :
                         /\ resolver_calls[k].row = i
                         /\ resolver_calls[k].result = Success(rows[i][f])
    /\ \A k \in DOMAIN resolver_calls :
          ~resolver_calls[k].result.ok =>
              rows[resolver_calls[k].row] = d[resolver_calls[k].row]
    /\ CsvReturned /\ Len(csv_file) > 1 =>
          returned[3] = Cardinality({k \in DOMAIN resolver_calls :
                                        ~resolver_calls[k].result.ok})
    /\ out_file # None =>
          /\ Len(out_file) = Len(csv_file)
          /\ out_file[1] = csv_file[1]
          /\ \A i \in DOMAIN rows : out_file[i + 1] = rows[i]

\* The rows were written after a row with an empty url failed to resolve
\* and stayed empty, and a later row resolved and had its url rewritten.
C21_Witness ==
    /\ CsvReturned /\ out_file # None
    /\ \E j, k \in DOMAIN resolver_calls :
          /\ j < k
          /\ resolver_calls[j].url = <<>>
          /\ ~resolver_calls[j].result.ok
          /\ out_file[resolver_calls[j].row + 1][4] = <<>>
          /\ resolver_calls[k].result.ok
          /\ out_file[resolver_calls[k].row + 1][4] # resolver_calls[k].url

\* The first line of the file is a data row, not a header
NoHeaderRow(file) == file # <<>> /\ Len(file[1]) >= 4 /\ Lower(file[1][1]) \notin HeaderMarkers
\* The tuples read_model_csv is to return for a file: for each line, in
\* order, that has at least 4 fields, no header marker as first field, a
\* name that is not blank and a url or a model id that is not blank, its
\* first four fields without surrounding blanks.
IsCatalogRow(row) ==
    /\ Len(row) >= 4
    /\ Lower(row[1]) \notin {<<"srno">>, <<"sr no">>, <<"index">>}
    /\ Strip(row[3]) # <<>>
    /\ Strip(row[4]) # <<>> \/ Strip(row[2]) # <<>>
RowsReturned(file) ==
    LET kept == SelectSeq(file, IsCatalogRow)
    IN [i \in DOMAIN kept |-> [f \in 1..4 |-> Strip(kept[i][f])]]

\* C22: a header row is optional: for a file whose first line is a data
\* row, process_csv_file counts every line of at least 4 fields, the first
\* line included, in total, and read_model_csv returns every such line.
C22_HeaderOptional ==
    NoHeaderRow(csv_file) =>
        /\ CsvReturned =>
              returned[1] = Cardinality({i \in DOMAIN csv_file : Len(csv_file[i]) >= 4})
        /\ cpc = "read" => models = RowsReturned(catalog)

\* C22, the part that holds: read_model_csv returns the first line of a
\* file with no header row as it returns any other row.
ReaderNeedsNoHeader == cpc = "read" => models = RowsReturned(catalog)

C25_ReadModelCsv ==
    /\ cpc = "missing" => models = <<>>
    /\ cpc = "read" =>
          /\ models = RowsReturned(catalog)
          /\ catalog = <<>> => models = <<>>
          /\ \A i \in DOMAIN catalog :
                LET row == catalog[i] IN
                /\ Len(row) >= 4
                /\ Lower(row[1]) \notin {<<"srno">>, <<"sr no">>, <<"index">>}
                /\ Strip(row[3]) # <<>> /\ Strip(row[4]) = <<>> /\ Strip(row[2]) # <<>>
                => \E j \in DOMAIN models :
                      models[j] = <<Strip(row[1]), Strip(row[2]), Strip(row[3]), <<>>>>

\* read_model_csv has read a file of two lines, a header line and a row
\* with blanks around its name, a model id and a blank url, and has
\* returned the one row, stripped and with the empty url.
C25_Witness ==
    /\ cpc = "read" /\ Len(catalog) = 2
    /\ Len(catalog[1]) = 4 /\ Len(catalog[2]) = 4
    /\ Lower(catalog[1][1]) \in HeaderMarkers
    /\ catalog[2][3] = <<" ", "x">> /\ catalog[2][4] = <<" ">>
    /\ models = << <<catalog[2][1], <<"1">>, <<"x">>, <<>>>> >>

----------------------------------------------------------------------------
(***************************************************************************)
(* process_text_file.                                                      *)
(***************************************************************************)
\* The version a download URL is the URL of
VersionOfUrl(u) == SubSeq(u, 2, Len(u))
\* The line became a row with a canonical download URL of a version the
\* API holds
LineResolved ==
    /\ tpc = "resolved"
    /\ IsCanonical(text_row[4])
    /\ VersionOfUrl(text_row[4]) \in Ids

\* C24: for a line that resolved, when the line neither starts like a URL
\* nor is a bare integer the name of the row is the line and no further
\* request is made; otherwise the name of the row is the name of the model
\* the resolved version belongs to, never the name of another model.
C24_NameOfResolvedModel ==
    LineResolved =>
        IF ~StartsWithHttp(line) /\ ~IsDigitString(line)
          THEN text_row[3] = line /\ name_calls = <<>>
          ELSE text_row[3] # NameOf(CHOOSE m \in Ids : m # owner_of[VersionOfUrl(text_row[4])])

\* C24, the part that holds: a line that is no URL and no integer is the
\* name of its row, and no request is made for the name.
NameLikeLineIsName ==
    LineResolved /\ ~StartsWithHttp(line) /\ ~IsDigitString(line) =>
        text_row[3] = line /\ name_calls = <<>>

----------------------------------------------------------------------------
(***************************************************************************)
(* CivitAIApiClient.find_download_url.                                     *)
(***************************************************************************)
\* A numeric model id was given
NumericIdGiven == find_args.model_id # None /\ IsDigitString(find_args.model_id)
FindReturned == fpc = "done"

\* C26: with a numeric model id, find_download_url looks the id up first,
\* and when that record gives a download URL it returns it after that one
\* get_model_by_id call and no search; with no usable id it makes exactly
\* one search, with (name, model_type), and returns the URL of the first
\* record of the same name up to case that gives one, else the URL of the
\* first record, else None.
C26_IdFirstThenName ==
    /\ NumericIdGiven /\ find_calls # <<>> =>
          /\ find_calls[1].op = "get_model_by_id"
          /\ find_calls[1].arg = <<find_args.model_id>>
    /\ /\ FindReturned /\ NumericIdGiven
       /\ find_calls[1].answer.end = "record"
       /\ Truthy(extract_download_url(find_calls[1].answer.value[1]))
       => /\ find_result = extract_download_url(find_calls[1].answer.value[1])
          /\ Len(find_calls) = 1
    /\ ~NumericIdGiven /\ find_calls # <<>> =>
          /\ Len(find_calls) = 1
          /\ find_calls[1].op = "search_models_by_name"
          /\ find_calls[1].arg = <<find_args.model_name, find_args.model_type>>
    /\ FindReturned /\ ~NumericIdGiven =>
          /\ find_calls # <<>>
          /\ LET rs == find_calls[1].answer.value
                 exact == {i \in DOMAIN rs :
                              /\ Lower(rs[i].name) = Lower(find_args.model_name)
                              /\ Truthy(extract_download_url(rs[i]))}
             IN IF exact # {}
                  THEN \E i \in exact :
                          /\ \A j \in exact : i <= j
                          /\ find_result = extract_download_url(rs[i])
                ELSE IF rs # <<>> /\ Truthy(extract_download_url(rs[1]))
                  THEN find_result = extract_download_url(rs[1])
                ELSE find_result = None

\* find_download_url was called without an id and returned the URL of the
\* second record of the search, the one of the same name up to case, and
\* not the URL of the first.
C26_Witness ==
    /\ FindReturned /\ ~NumericIdGiven /\ Len(find_calls) = 1
    /\ LET rs == find_calls[1].answer.value IN
       /\ Len(rs) = 2
       /\ rs[1].name = <<"y">> /\ rs[2].name = <<"X">>
       /\ Truthy(extract_download_url(rs[1]))
       /\ find_result = extract_download_url(rs[2])
       /\ find_result # extract_download_url(rs[1])

----------------------------------------------------------------------------
(***************************************************************************)
(* The download engine: slots, backoff, server file names, counters.       *)
(***************************************************************************)
\* C27: every slot a download task takes is given back whatever the
\* outcome of the task: the free slots and the tasks inside `async with
\* semaphore` always add up to max_concurrent_downloads, a task that has
\* returned holds none, and when download_files returns all slots are free.
C27_SlotsReleased ==
    dpc \in {"collecting", "returned"} /\ download_tasks # <<>> =>
        /\ semaphore + Cardinality(Holding) = max_concurrent
        /\ dpc = "returned" => semaphore = max_concurrent

\* download_files has returned after two tasks took a slot, one ending in
\* a skip under the file name of the server, the other in a failure.
C27_Witness ==
    /\ dpc = "returned" /\ Len(finished) = 2
    /\ requests[1] >= 1 /\ requests[2] >= 1
    /\ \E i \in DOMAIN finished :
          finished[i].kind = "Skipped (already exists)" /\ finished[i].cause = "200"
    /\ \E i \in DOMAIN finished : ~finished[i].ok

\* C28: the k-th wait of a task is of 2^(k-1) seconds (1, 2, 4, ...); a
\* task has waited once after each request but the last, so no wait
\* follows the final attempt, a 401, a 404 or a success, and a task waits
\* between a failed attempt and the next.
C28_ExponentialBackoff ==
    \A t \in Tasks :
        /\ \A k \in DOMAIN slept[t] : slept[t][k] = 2 ^ (k - 1)
        /\ Len(slept[t]) = IF pc[t] = "sleeping" THEN requests[t]
                           ELSE IF requests[t] = 0 THEN 0
                           ELSE requests[t] - 1

\* A task has made three requests and waited 1 second, then 2 seconds,
\* and has returned the failure of its last attempt without a third wait.
C28_Witness ==
    \E t \in Tasks :
        /\ requests[t] = 3 /\ slept[t] = <<1, 2>>
        /\ pc[t] = "done"
        /\ \E i \in DOMAIN finished : finished[i].task = t /\ ~finished[i].ok

\* C29: when a 200 carries a file name of the server, the destination is
\* the path of that name; with skip-existing on and a file at that path the
\* outcome is a 'Skipped (already exists)' success and no file changes;
\* otherwise the file that is opened and written is the one at the path of
\* the server's name, and the file at the caller's path is left alone.
C29_ServerNameIsDestination ==
    [][\A t \in Tasks :
          /\ \A io \in IoOutcomes \ {"mkdir_fails"} :
                Respond200(t, TRUE, io) =>
                    IF skip_existing /\ fs[SrvPath(t)] # "absent"
                      THEN /\ fs' = fs
                           /\ pc'[t] = "done"
                           /\ finished' = Append(finished,
                                 [Skipped(t, SrvPath(t)) EXCEPT !.cause = "200"])
                      ELSE /\ file_path'[t] = SrvPath(t)
                           /\ fs'[GuessPath(t)] = fs[GuessPath(t)]
                           /\ io = "ok" => fs'[SrvPath(t)] = "partial" /\ pc'[t] = "writing"
          /\ \A w \in WriteOutcomes :
                FinishWrite(t, w) /\ file_path[t] = SrvPath(t) =>
                    /\ fs'[GuessPath(t)] = fs[GuessPath(t)]
                    /\ w = "ok" =>
                          /\ fs'[SrvPath(t)] = "complete"
                          /\ finished' = Append(finished,
                                [Downloaded(t, SrvPath(t)) EXCEPT !.cause = "200"])
      ]_vars

\* A task was skipped under the file name of the server, for a file that
\* was there before, and nothing was written to the caller's path.
C29_Witness ==
    /\ skip_existing
    /\ fs[SrvPath(1)] = "old" /\ fs[GuessPath(1)] = "absent"
    /\ \E i \in DOMAIN finished :
          finished[i] = [Skipped(1, SrvPath(1)) EXCEPT !.cause = "200"]

\* C30 as stated: each time download_files collects an outcome, the three
\* counters add up to the number of tasks that have completed, to the
\* number of outcomes collected and to the position of the overall bar.
C30_CountersTrackCompleted ==
    [][Len(results') # Len(results) =>
          /\ counts'.successful + counts'.skipped + counts'.failed = Len(finished')
          /\ Len(finished') = Len(results')
          /\ Len(results') = overall_n'
      ]_vars

\* C30, amended: the counters of download_files add up, after each outcome
\* it collects, to the number of outcomes collected, which is the position
\* of the overall progress bar and is at most the number of tasks that
\* have completed (a completed task waits for the loop to collect it);
\* each collection adds one to exactly one counter; and when
\* download_files returns the sum is the number of tasks submitted.
C30_CountersAddUp ==
    /\ [](/\ counts.successful + counts.skipped + counts.failed = Len(results)
          /\ Len(results) = overall_n
          /\ Len(results) <= Len(finished)
          /\ dpc = "returned" =>
                Len(results) = Len(download_tasks) /\ Len(finished) = Len(results))
    /\ [][Len(results') # Len(results) =>
             /\ Len(results') = Len(results) + 1
             /\ \E c \in {"successful", "skipped", "failed"} :
                   counts' = [counts EXCEPT ![c] = @ + 1]
             /\ overall_n' = overall_n + 1
         ]_vars

\* Two tasks have completed, one failed and one skipped, and download_files
\* has collected the first of them only: the counters add up to one.
C30_Witness ==
    /\ dpc = "collecting" /\ Len(finished) = 2 /\ Len(results) = 1
    /\ \E i \in DOMAIN finished : ~finished[i].ok
    /\ \E i \in DOMAIN finished : finished[i].kind = "Skipped (already exists)"
    /\ counts.successful + counts.skipped + counts.failed = 1
    /\ overall_n = 1

----------------------------------------------------------------------------
(***************************************************************************)
(* The file scan of extract_download_url.                                  *)
(***************************************************************************)
FirstOf(S) == CHOOSE i \in S : \A j \in S : i <= j
SafetensorAt(files) == {i \in DOMAIN files : files[i].format = "safetensor"}
PrimaryAt(files) == {i \in DOMAIN files : files[i].primary}

\* C31: the scan stops at the first file that is safetensor and primary and
\* chooses it; otherwise the chosen file is the first safetensor file of
\* the list, else the first primary file, else the first file; and for
\* [other primary, safetensor not primary] the safetensor file is chosen.
C31_FileSelection ==
    scan.pc = "done" =>
        LET files == scan.files
            both == SafetensorAt(files) \cap PrimaryAt(files)
        IN /\ IF both # {}
                THEN scan.chosen_file = files[FirstOf(both)] /\ scan.seen = FirstOf(both)
              ELSE IF SafetensorAt(files) # {}
                THEN scan.chosen_file = files[FirstOf(SafetensorAt(files))]
              ELSE IF PrimaryAt(files) # {}
                THEN scan.chosen_file = files[FirstOf(PrimaryAt(files))]
              ELSE IF files # <<>> THEN scan.chosen_file = files[1]
              ELSE scan.chosen_file = NoFile
           /\ (/\ Len(files) = 2
               /\ files[1].format = "other" /\ files[1].primary
               /\ files[2].format = "safetensor" /\ ~files[2].primary)
              => scan.chosen_file = files[2]

\* What the scan does: among the files before the stop, the last
\* safetensor file, else the last primary file, else the first file.
LastOf(S) == CHOOSE i \in S : \A j \in S : j <= i
ScanKeepsLast ==
    scan.pc = "done" =>
        LET files == scan.files
            both == SafetensorAt(files) \cap PrimaryAt(files)
        IN IF both # {}
             THEN scan.chosen_file = files[FirstOf(both)] /\ scan.seen = FirstOf(both)
           ELSE IF SafetensorAt(files) # {}
             THEN scan.chosen_file = files[LastOf(SafetensorAt(files))]
           ELSE IF PrimaryAt(files) # {}
             THEN scan.chosen_file = files[LastOf(PrimaryAt(files))]
           ELSE IF files # <<>> THEN scan.chosen_file = files[1]
           ELSE scan.chosen_file = NoFile

----------------------------------------------------------------------------
(***************************************************************************)
(* resolve_url: when it searches, and the preferred version.               *)
(***************************************************************************)
SearchCalls == {i \in DOMAIN api_calls : api_calls[i].op = "search"}
\* The lookup of the model was made and gave no download URL
ModelLookupFailed ==
    /\ replies.model.status # "none"
    /\ \/ ReturnsNone(replies.model)
       \/ get_best_download_url(replies.model.body, Get(data, "model_version_id")) = None

\* C32: resolve_url sends a search request only for an input classified as
\* unknown and a name hint that is not empty; an input classified as a
\* model page or a bare id whose lookup gives no URL ends in failure after
\* that one request, with no search, also when a name hint was given.
C32_SearchOnlyForUnknown ==
    /\ SearchCalls # {} => url_type = "unknown" /\ model_name # <<>>
    /\ rpc = "done" /\ url_type \in {"model_page", "model_id_only"} /\ ModelLookupFailed =>
          /\ resolved = Unresolved(url)
          /\ SearchCalls = {}
          /\ Len(api_calls) = 1 /\ api_calls[1].op = "models"

\* A bare id with a name hint, whose model lookup was answered 404, ended
\* in failure after the one request.
C32_Witness ==
    /\ rpc = "done" /\ url_type = "model_id_only" /\ model_name = <<"x">>
    /\ replies.model.status = "404"
    /\ resolved = Unresolved(url)
    /\ Len(api_calls) = 1

\* The lookup of the version was made and gave no download URL
VersionLookupFailed ==
    /\ replies.version.status # "none"
    /\ ReturnsNone(replies.version) \/ ~Truthy(replies.version.body.downloadUrl)

\* C33: when the version lookup of a version-page reference gives no URL,
\* the model of the reference is looked up, and the URL of the version of
\* the referenced id is returned when the record has that version with a
\* URL, the URL of the version at index 0 being used only otherwise.
C33_PreferredVersionFirst ==
    ResolveEnded /\ url_type = "model_version_page" /\ VersionLookupFailed =>
        /\ replies.model.status # "none"
        /\ LET preferred_url ==
                   IF ReturnsNone(replies.model) THEN None
                   ELSE get_best_download_url(replies.model.body, data.model_version_id)
           IN Truthy(preferred_url) /\ preferred_url # AttributeError =>
                 resolved = Success(preferred_url)

----------------------------------------------------------------------------
(***************************************************************************)
(* identify_url_type: the download endpoint.                               *)
(***************************************************************************)
\* https://civitai.com/api/download/models/<digits> and nothing else
ExactDownloadUrl(s) ==
    Len(s) >= 2 /\ s[1] = "DL" /\ \A i \in 2..Len(s) : IsDigit(s[i])

\* C34: identify_url_type answers download_url only for a string that,
\* trimmed, is exactly the download endpoint followed by digits; a string
\* that goes on with other characters is not a download_url.
C34_ExactDownloadEndpoint ==
    rpc = "classified" /\ url_type = "download_url" => ExactDownloadUrl(Strip(url))

\* What the classifier does: download_url is the answer exactly for the
\* strings that, trimmed, begin with the download endpoint and a digit.
DownloadUrlIsAPrefixMatch ==
    rpc = "classified" =>
        (url_type = "download_url" <=>
            LET s == Strip(url) IN Len(s) >= 2 /\ s[1] = "DL" /\ IsDigit(s[2]))

----------------------------------------------------------------------------
(***************************************************************************)
(* CivitAIApiClient.find_download_url: the fallback to the search.         *)
(***************************************************************************)
\* The lookup by id was made and did not produce a download URL
IdLookupGaveNoUrl ==
    /\ find_calls # <<>> /\ find_calls[1].op = "get_model_by_id"
    /\ \/ find_calls[1].answer.end # "record"
       \/ ~Truthy(extract_download_url(find_calls[1].answer.value[1]))
Searched == \E i \in DOMAIN find_calls : find_calls[i].op = "search_models_by_name"

\* C35: when the lookup by id produces no download URL, because the record
\* is absent, has no usable version, or the request failed, find_download_url
\* has made the search by name by the time it returns.
C35_SearchAfterFailedIdLookup ==
    FindReturned /\ IdLookupGaveNoUrl => Searched

\* What holds: the search follows a lookup that returned no record or a
\* record without a URL; a lookup that raised is followed by no call and
\* None is returned.
SearchUnlessIdLookupRaised ==
    FindReturned /\ IdLookupGaveNoUrl =>
        IF find_calls[1].answer.end = "raised"
          THEN Len(find_calls) = 1 /\ find_result = None
          ELSE Searched /\ Len(find_calls) = 2

----------------------------------------------------------------------------
(***************************************************************************)
(* The download engine: what a skip stands for.                            *)
(***************************************************************************)
\* C36: a "Skipped (already exists)" outcome names a file that was on disk
\* before download_file was called; in a batch of one task, where no other
\* task writes, no skip is reported for a file an earlier attempt of the
\* task created.
C36_SkipOnlyForFilesThatWereThere ==
    Len(download_tasks) = 1 =>
        \A o \in Outcomes : o.kind = "Skipped (already exists)" => fs[o.name] = "old"

\* What holds: a skip decided before the first request names a file that
\* was there before the call.
EarlySkipIsForOldFile ==
    \A o \in Outcomes :
        o.kind = "Skipped (already exists)" /\ requests[o.task] = 0 => fs[o.name] = "old"

----------------------------------------------------------------------------
(***************************************************************************)
(* The download engine: termination.                                       *)
(***************************************************************************)
\* C37: with at least one slot and a finite number of attempts, when the
\* event loop keeps running and every request ends, every submitted task
\* produces an outcome and download_files returns with one result per
\* task, so that no task stays blocked on the semaphore and no
\* interleaving ends in a deadlock.
C37_EveryTaskEnds ==
       <>(/\ dpc = "returned"
          /\ \A t \in Tasks : pc[t] = "done"
          /\ Len(results) = Len(download_tasks))

\* Two tasks shared one slot, both went to the network, one of them after
\* a retry, and download_files has returned.
C37_Witness ==
    /\ dpc = "returned" /\ Len(download_tasks) = 2 /\ max_concurrent = 1
    /\ requests[1] >= 1 /\ requests[2] >= 1
    /\ \E t \in Tasks : slept[t] # <<>>
    /\ Len(results) = 2

----------------------------------------------------------------------------
(***************************************************************************)
(* The download engine: how outcomes are counted.                          *)
(***************************************************************************)
FromSkip(rs) == {i \in DOMAIN rs : rs[i].kind = "Skipped (already exists)"}
WrittenNow(rs) == {i \in DOMAIN rs : rs[i].kind = "Downloaded"}
NotOk(rs) == {i \in DOMAIN rs : ~rs[i].ok}

\* C38: in the running counters and in the summary of download_model_type
\* the skipped count is the number of outcomes that came from a skip, the
\* downloaded count the number of files written by this run, the failed
\* count the number of outcomes whose flag is false, whatever the names of
\* the files.
C38_ExactCounts ==
    /\ counts.skipped = Cardinality(FromSkip(results))
    /\ counts.successful = Cardinality(WrittenNow(results))
    /\ counts.failed = Cardinality(NotOk(results))
    /\ dpc = "returned" =>
          /\ Summary(results).skipped = Cardinality(FromSkip(results))
          /\ Summary(results).downloaded = Cardinality(WrittenNow(results))
          /\ Summary(results).failed = Cardinality(NotOk(results))

\* What holds: the failed count is exact, and the other two are exact for
\* the outcomes that name a file without "Skipped" in its name.
CountsExactButForNames ==
    /\ counts.failed = Cardinality(NotOk(results))
    /\ counts.skipped + counts.successful
          = Cardinality(FromSkip(results)) + Cardinality(WrittenNow(results))
    /\ (\A i \in WrittenNow(results) : results[i].name \notin SkippedInName) =>
          /\ counts.skipped = Cardinality(FromSkip(results))
          /\ counts.successful = Cardinality(WrittenNow(results))
          /\ dpc = "returned" =>
                Summary(results) = [downloaded |-> counts.successful,
                                    skipped |-> counts.skipped,
                                    failed |-> counts.failed]

----------------------------------------------------------------------------
(***************************************************************************)
(* download_model_type: rows with and without a URL.                       *)
(***************************************************************************)
OrchEnded == orch.pc \in {"returned", "raised"}
RowsWithUrl == {i \in DOMAIN orch.models : orch.models[i].url # <<>>}
RowsHanded == {orch.handed[j].row : j \in DOMAIN orch.handed}

\* C39: when download_model_type ends, every row of the catalog that has a
\* URL was handed to the download engine with that URL and has an outcome
\* of its own, whether or not the catalog has rows without a URL.
C39_RowsWithUrlAreDownloaded ==
    OrchEnded =>
        /\ RowsWithUrl \subseteq RowsHanded
        /\ \A j \in DOMAIN orch.handed :
              orch.handed[j].row \in RowsWithUrl =>
                 /\ orch.handed[j].url = orch.models[orch.handed[j].row].url
                 /\ j \in DOMAIN orch.results

\* What holds: a catalog all of whose rows have a URL is handed over whole
\* and in order; a catalog with a row without a URL makes
\* download_model_type raise with nothing handed over.
AllOrNothing ==
    OrchEnded =>
        IF MissingUrl(orch.models) = {}
          THEN /\ orch.pc = "returned"
               /\ orch.handed = WithUrl(orch.models)
               /\ Len(orch.results) = Len(orch.models)
          ELSE orch.pc = "raised" /\ orch.handed = <<>>

\* The tasks whose transfer is between the creation of the progress bar and
\* the `finally` that follows the chunk loop.
Streaming == {t \in Tasks : pc[t] = "writing"}

\* C40: during download_files the registry never holds more than
\* max_concurrent entries; an entry is there exactly while its transfer is
\* streaming, so each created entry is removed once, when the transfer ends
\* or fails part-way; removing an id that is not registered changes nothing;
\* and once download_files has returned the registry is empty.
C40_RegistryInvariant ==
    /\ Cardinality(active_downloads) <= max_concurrent
    /\ active_downloads = Streaming
    /\ \A t \in TaskIds \ active_downloads :
           remove_file_progress(active_downloads, t) = active_downloads
    /\ dpc = "returned" => active_downloads = {}

\* download_files has returned after a transfer failed part-way and another
\* completed, with room for two entries at a time.
C40_Witness ==
    /\ dpc = "returned" /\ active_downloads = {}
    /\ max_concurrent >= 2
    /\ \E t \in Tasks : fs[file_path[t]] = "write_failed"
    /\ \E t \in Tasks : fs[file_path[t]] = "complete"

====
